---- MODULE Spec2Model ----
(***************************************************************************)
(* UniFi Access Orchestrator: the rules engine (event normalization,       *)
(* group resolution, rule matching, unlock dispatch, self-trigger guard)   *)
(* together with the door-control client it dispatches through and the     *)
(* access controller that echoes accepted unlock commands back as events.  *)
(*                                                                         *)
(* Encoding of JavaScript values:                                          *)
(*   - a name (location, group, door, device) is a sequence of characters; *)
(*     the empty sequence stands for every falsy value (null, undefined,   *)
(*     ''), which the code never tells apart for names;                    *)
(*   - an id, an event type and a map key is a string, "" when absent;     *)
(*   - a reason code is a number, NoReason when absent;                    *)
(*   - an extra value is a record [kind, map]: kind "null" (absent),       *)
(*     "object" (a mapping, map[k] = "" when key k is absent) or "string". *)
(***************************************************************************)
EXTENDS Integers, Sequences, FiniteSets, TLC

VARIABLES
    config,     \* the loaded configuration (config.json)
    stats,      \* RulesEngine.stats counters
    calls,      \* executeUnlocks invocations waiting for their door requests
    timers,     \* delayed dispatches scheduled with setTimeout
    echoes,     \* unlock notifications the controller has yet to deliver
    sent,       \* the body of the last unlock request the client sent
    last,       \* the last handleEvent call: its payload and what it did
    lastExec,   \* the last executeUnlocks that returned: its outcomes
    nEvents,    \* number of handleEvent calls made so far
    retired,    \* the engines a reload has replaced, oldest first
    notes,      \* stats.last_event and stats.last_unlock of every engine, by
                \* the number of the call that wrote them; oldest engine first
    client,     \* UniFiClient's published caches: userGroupMap, userNames
    syncs,      \* the syncUserGroups runs under way, with their local maps
    lastSync,   \* the last syncUserGroups run that ended: how, and the caches
    service,    \* the clients the server has constructed, oldest first (the
                \* last one is let unifiClient): their sockets and timers;
                \* and the door directory of the client in place
    probe,      \* one rule put before one (group, location): the inputs and
                \* the result of RulesEngine's rule filter
    server      \* the last HTTP request and its answer, and config.json on disk

clientVars == <<client, syncs, lastSync, service>>

engineVars == <<config, stats, calls, timers, echoes, sent, last, lastExec,
                nEvents, retired, notes, probe>>

vars == <<config, stats, calls, timers, echoes, sent, last, lastExec, nEvents,
         retired, notes, clientVars, probe,
         server>>

(***************************************************************************)
(* Bounds of the model.                                                    *)
(***************************************************************************)
MaxEvents == 2      \* handleEvent calls in one behaviour
MaxEchoes == 1      \* notifications the controller holds undelivered
MaxStrLen == 2      \* length of the names the matching is checked on
MaxGroupLen == 1    \* length of the group names the matching is checked on
MaxDoors == 3       \* doors in one unlock list
MaxRules == 2       \* rules in one rule table
MaxRuleEvents == 1  \* handleEvent calls in one behaviour over the rule tables
MaxReloads == 1     \* configuration reloads in one behaviour
MaxSyncs == 1       \* syncUserGroups runs under way at one time
MaxStrategies == 3  \* strategies in one configured strategy_order
MaxKeyWords == 2    \* parts of one alarm trigger key
MaxBroadcasts == 203    \* broadcasts followed in the event history

(***************************************************************************)
(* Strings: String.prototype.trim and toLowerCase on character sequences.  *)
(***************************************************************************)
Chars == {"a", "A", "b", " "}

Lower(c) == CASE c = "A" -> "a" [] OTHER -> c

toLowerCase(s) == [i \in 1..Len(s) |-> Lower(s[i])]

RECURSIVE trimStart(_)
trimStart(s) == IF s # <<>> /\ Head(s) = " " THEN trimStart(Tail(s)) ELSE s

RECURSIVE trimEnd(_)
trimEnd(s) == IF s # <<>> /\ s[Len(s)] = " "
              THEN trimEnd(SubSeq(s, 1, Len(s) - 1)) ELSE s

trim(s) == trimEnd(trimStart(s))

StrUpTo(n) == UNION {[1..k -> Chars] : k \in 0..n}

(***************************************************************************)
(* Names used by the configurations and payloads of the model.             *)
(***************************************************************************)
Front       == <<"a">>          \* the trigger door
FrontUpper  == <<"A">>          \* the same name in another letter case
FrontPadded == <<" ", "a">>     \* the same name with surrounding whitespace
FrontDesk   == <<"a", "b">>     \* another location, Front is a prefix of it
Elevator    == <<"b">>          \* a door of the directory
Suite       == <<"b", "b">>     \* a door of the directory
Ghost       == <<"b", "a">>     \* a door no discovery has found
Office      == <<"a">>          \* a logical group
Tenant      == <<"b">>          \* a logical group
Viewer      == <<"a", "a">>     \* an intercom viewer device
Contractor  == <<"a", "b">>
NoName      == <<>>

DoorNames == {Elevator, Suite, Ghost}

OrchestratorId == "unifi-access-orchestrator"

NoReason == 0

(***************************************************************************)
(* Extra: the passthrough object of an unlock command and of an event.     *)
(***************************************************************************)
Keys == {"source", "reason", "timestamp", "0"}

EmptyMap == [k \in Keys |-> ""]

ExtraNull == [kind |-> "null", map |-> EmptyMap]

ExtraObject(m) == [kind |-> "object", map |-> m]

ExtraString == [kind |-> "string", map |-> EmptyMap]

\* A JSON array: its first element is its property "0".
ExtraArray(items) ==
    [kind |-> "array",
     map |-> [k \in Keys |-> IF k = "0" /\ Len(items) > 0 THEN items[1] ELSE ""]]

Truthy(extra) == extra.kind # "null"

(***************************************************************************)
(* UniFiClient: the door directory and the membership cache as the last    *)
(* discovery and the last sync left them.                                  *)
(***************************************************************************)
doors == {Elevator, Suite}

\* One UniFiClient object outside its caches:
\*   down      shutdown() has been called on it
\*   ws        this.ws: "none" (null) or "open" (a socket, connecting or open)
\*   closing   a socket of this client has closed, or is being closed, and
\*             its close event has not been delivered yet
\*   timer     this.wsReconnectTimer is set
\*   periodic  this.syncInterval is set
\*   init      what an initialize() call in flight awaits: "no" (none in
\*             flight), "doors" (discoverDoors) or "groups" (syncUserGroups)
NewClient ==
    [down |-> FALSE, ws |-> "none", closing |-> FALSE, timer |-> FALSE,
     periodic |-> FALSE, init |-> "no"]

\* The service after start() has initialized its first client: the
\* directory is discovered and the periodic sync runs.  ready: an
\* initialize() call of the service has succeeded.
ServiceUp ==
    [clients |-> <<[NewClient EXCEPT !.periodic = TRUE]>>, doors |-> doors,
     ready |-> TRUE]

userGroupMap == [u \in {"u1", "u2", OrchestratorId} |->
                    IF u = "u1" THEN Office ELSE NoName]

\* Display names, "" where the cache holds none.
userNames == [u \in {"u1", "u2", OrchestratorId} |->
                    IF u = "u1" THEN "Ann" ELSE ""]

\* The caches as the sync before the behaviour published them.
PublishedCaches == [userGroupMap |-> userGroupMap, userNames |-> userNames]

getGroupForUser(userId) ==
    IF userId \in DOMAIN client.userGroupMap
    THEN client.userGroupMap[userId] ELSE NoName

getUserName(userId) ==
    IF userId \in DOMAIN client.userNames THEN client.userNames[userId] ELSE ""

(***************************************************************************)
(* UniFiClient.syncUserGroups.  The controller's directory: the groups in  *)
(* the order GET /user_groups lists them, each with its active members.    *)
(* A run fills maps of its own and assigns them to the client's fields     *)
(* when the loop over the groups has ended.                                *)
(***************************************************************************)
Directory ==
    << [label |-> Office, members |-> [u \in {"u1"} |-> "Ann B"]],
       [label |-> Tenant, members |-> [u \in {"u2"} |-> "Bob"]] >>

EmptyCaches ==
    [userGroupMap |-> [u \in DOMAIN userGroupMap |-> NoName],
     userNames |-> [u \in DOMAIN userNames |-> ""]]

\* newUserGroupMap.set / newUserNames.set for every member of one group.
withMembers(maps, group) ==
    [userGroupMap |-> [u \in DOMAIN maps.userGroupMap |->
                            IF u \in DOMAIN group.members THEN group.label
                            ELSE maps.userGroupMap[u]],
     userNames |-> [u \in DOMAIN maps.userNames |->
                            IF u \in DOMAIN group.members THEN group.members[u]
                            ELSE maps.userNames[u]]]

IdleSync == [phase |-> "idle", next |-> 0, maps |-> EmptyCaches, failed |-> FALSE]

NoSync == [outcome |-> "none", failed |-> FALSE,
           before |-> PublishedCaches, after |-> PublishedCaches]

\* initialize(), the setInterval callback or POST /api/sync calls
\* syncUserGroups: GET /user_groups is sent.
syncUserGroups(i) ==
    /\ syncs[i].phase = "idle"
    /\ syncs' = [syncs EXCEPT ![i] = [IdleSync EXCEPT !.phase = "listing"]]
    /\ UNCHANGED <<client, lastSync, service, engineVars>>

SyncStart ==
    \E i \in 1..MaxSyncs : syncUserGroups(i) /\ UNCHANGED server

\* GET /user_groups is answered.  On failure the outer catch ends the run.
SyncGroupsListed ==
    \E i \in 1..MaxSyncs, ok \in BOOLEAN :
        /\ syncs[i].phase = "listing"
        /\ IF ok
           THEN /\ syncs' = [syncs EXCEPT ![i].phase = "members", ![i].next = 1]
                /\ UNCHANGED <<client, lastSync, service, engineVars, server>>
           ELSE /\ syncs' = [syncs EXCEPT ![i] = IdleSync]
                /\ lastSync' = [outcome |-> "list_failed", failed |-> TRUE,
                                before |-> client, after |-> client]
                /\ UNCHANGED <<client, service, engineVars, server>>

\* GET /user_groups/:id/users/all is answered for the next group.  On
\* failure the inner catch logs and the loop goes on to the next group.
SyncMembersFetched ==
    \E i \in 1..MaxSyncs, ok \in BOOLEAN :
        /\ syncs[i].phase = "members"
        /\ syncs[i].next <= Len(Directory)
        /\ syncs' = [syncs EXCEPT
                ![i].next = @ + 1,
                ![i].failed = @ \/ ~ok,
                ![i].maps = IF ok THEN withMembers(@, Directory[syncs[i].next])
                            ELSE @]
        /\ UNCHANGED <<client, lastSync, service, engineVars, server>>

\* After the loop: this.userGroupMap = newUserGroupMap; this.userNames =
\* newUserNames, with nothing awaited in between.
SyncSwap ==
    \E i \in 1..MaxSyncs :
        /\ syncs[i].phase = "members"
        /\ syncs[i].next > Len(Directory)
        /\ client' = syncs[i].maps
        /\ lastSync' = [outcome |-> "published", failed |-> syncs[i].failed,
                        before |-> client, after |-> client']
        /\ syncs' = [syncs EXCEPT ![i] = IdleSync]
        /\ UNCHANGED <<service, engineVars, server>>

(***************************************************************************)
(* UniFiClient.unlockDoor: the body of PUT /doors/:id/unlock.  The marker  *)
(* is written first, then reason and timestamp, into the same object.      *)
(***************************************************************************)
\* A reason text of a caller; none equals a marker value.
ReasonText == "reason-text"

TimeText == "iso-time"

unlockBody(selfTrigger, reason) ==
    LET e0 == EmptyMap
        e1 == IF selfTrigger.marker_key # "" /\ selfTrigger.marker_value # ""
              THEN [e0 EXCEPT ![selfTrigger.marker_key] = selfTrigger.marker_value]
              ELSE e0
        e2 == [e1 EXCEPT !["reason"] = reason]
        e3 == [e2 EXCEPT !["timestamp"] = TimeText]
    IN  [actor_id |-> OrchestratorId, extra |-> ExtraObject(e3)]

NoBody == [actor_id |-> "", extra |-> ExtraNull]

(***************************************************************************)
(* UniFiClient.unlockDoorByName: a name the directory does not hold fails  *)
(* without a request; otherwise unlockDoor sends one.                      *)
(***************************************************************************)
doorKnown(doorName) == doorName \in service.doors

(***************************************************************************)
(* Resolver.resolve: the first strategy of the configured order that       *)
(* yields a group wins.                                                    *)
(***************************************************************************)
\* policyName is webhookObject.policy_name, "" when the object has none.
strategyGroup(cfg, strategy, userId, policyName) ==
    CASE strategy = "api_group" -> getGroupForUser(userId)
      [] strategy = "manual" ->
            IF userId \in DOMAIN cfg.manual_overrides
            THEN cfg.manual_overrides[userId] ELSE NoName
      [] strategy = "policy_name" ->
            IF policyName # "" /\ policyName \in DOMAIN cfg.policy_to_group
            THEN cfg.policy_to_group[policyName] ELSE NoName
      [] OTHER -> NoName

\* Mutant: the loop runs to its end, so the last strategy that yields a
\* group wins.
RECURSIVE resolveFromLastWins(_, _, _, _)
resolveFromLastWins(cfg, strategies, userId, policyName) ==
    IF strategies = <<>> THEN [group |-> NoName, strategy |-> "", consulted |-> <<>>]
    ELSE LET g == strategyGroup(cfg, Head(strategies), userId, policyName)
             rest == resolveFromLastWins(cfg, Tail(strategies), userId, policyName)
         IN  IF rest.group # NoName \/ g = NoName
             THEN [rest EXCEPT !.consulted = <<Head(strategies)>> \o @]
             ELSE [group |-> g, strategy |-> Head(strategies),
                   consulted |-> <<Head(strategies)>> \o rest.consulted]

\* The loop over this.strategies; consulted lists the strategies the loop
\* has entered.
RECURSIVE resolveFrom(_, _, _, _)
resolveFrom(cfg, strategies, userId, policyName) ==
    IF strategies = <<>> THEN [group |-> NoName, strategy |-> "", consulted |-> <<>>]
    ELSE LET g == strategyGroup(cfg, Head(strategies), userId, policyName)
         IN  IF g # NoName
             THEN [group |-> g, strategy |-> Head(strategies),
                   consulted |-> <<Head(strategies)>>]
             ELSE LET rest == resolveFrom(cfg, Tail(strategies), userId, policyName)
                  IN  [rest EXCEPT !.consulted = <<Head(strategies)>> \o @]

\* Mutant: the display name is looked up before the user id is tested.
resolveNameFirst(cfg, userId, policyName) ==
    LET found == IF userId = ""
                 THEN [group |-> NoName, strategy |-> "", consulted |-> <<>>]
                 ELSE resolveFrom(cfg, cfg.strategy_order, userId, policyName)
    IN  [group |-> found.group, strategy |-> found.strategy,
         userName |-> getUserName(userId),
         consulted |-> found.consulted, nameLookups |-> 1]

\* nameLookups counts the getUserName calls made.
resolve(cfg, userId, policyName) ==
    IF userId = ""
    THEN [group |-> NoName, strategy |-> "", userName |-> "",
          consulted |-> <<>>, nameLookups |-> 0]
    ELSE LET found == resolveFrom(cfg, cfg.strategy_order, userId, policyName)
         IN  [group |-> found.group, strategy |-> found.strategy,
              userName |-> getUserName(userId),
              consulted |-> found.consulted, nameLookups |-> 1]

(***************************************************************************)
(* RulesEngine.isSelfTriggered                                             *)
(***************************************************************************)
\* Mutant: the marker is looked up under the key 'source' whatever the
\* configured key is.
isSelfTriggeredFixedKey(selfTrigger, extra) ==
    IF selfTrigger.marker_key = "" \/ selfTrigger.marker_value = "" THEN FALSE
    ELSE IF extra.kind # "object" THEN FALSE
    ELSE extra.map["source"] = selfTrigger.marker_value

\* typeof extra is 'object' for a mapping and for an array.
isSelfTriggered(selfTrigger, extra) ==
    IF selfTrigger.marker_key = "" \/ selfTrigger.marker_value = "" THEN FALSE
    ELSE IF extra.kind \notin {"object", "array"} THEN FALSE
    ELSE extra.map[selfTrigger.marker_key] = selfTrigger.marker_value

(***************************************************************************)
(* RulesEngine._normalizeRules: the rules array as it is, or one rule per  *)
(* group_actions entry whose unlock list is not empty.                     *)
(***************************************************************************)
RECURSIVE legacyRules(_, _)
legacyRules(trigger, groupActions) ==
    IF groupActions = <<>> THEN <<>>
    ELSE LET a == Head(groupActions)
             rest == legacyRules(trigger, Tail(groupActions))
         IN  IF Len(a.unlock) > 0
             THEN <<[group |-> a.group, trigger |-> trigger,
                     unlock |-> a.unlock, delay |-> 0]>> \o rest
             ELSE rest

normalizeRules(rulesConfig) ==
    IF rulesConfig.isArray THEN rulesConfig.rules
    ELSE legacyRules(rulesConfig.trigger_location, rulesConfig.group_actions)

(***************************************************************************)
(* RulesEngine.locationMatches                                             *)
(***************************************************************************)
\* Mutant: the names are compared as they are written.
locationMatchesVerbatim(eventLocation, configLocation) ==
    IF eventLocation = NoName \/ configLocation = NoName THEN FALSE
    ELSE eventLocation = configLocation

locationMatches(eventLocation, configLocation) ==
    IF eventLocation = <<>> \/ configLocation = <<>> THEN FALSE
    ELSE toLowerCase(trim(eventLocation)) = toLowerCase(trim(configLocation))

\* A location field that holds a JSON number instead of a string.
NumberName == <<"7">>

\* eventLocation.trim is not a function: a non-zero number passes the guard
\* for a missing location and raises a TypeError at trim().
locationThrows(eventLocation, configLocation) ==
    eventLocation = NumberName /\ configLocation # NoName

(***************************************************************************)
(* The rule filter of handleDoorUnlock and handleDoorbellCompleted.        *)
(***************************************************************************)
\* rule.group === group && this.locationMatches(...): the location is
\* compared for the rules of the resolved group only.
filterThrows(rules, group, locationName) ==
    \E i \in 1..Len(rules) :
        rules[i].group = group /\ locationThrows(locationName, rules[i].trigger)

ruleMatches(rule, group, locationName) ==
    rule.group = group /\ locationMatches(locationName, rule.trigger)

\* Mutant: a rule applies at its location whatever the group.
matchingRulesByLocation(rules, group, locationName) ==
    SelectSeq(rules, LAMBDA rule : locationMatches(locationName, rule.trigger))

matchingRules(rules, group, locationName) ==
    SelectSeq(rules, LAMBDA rule : ruleMatches(rule, group, locationName))

(***************************************************************************)
(* [...new Set(list)]: duplicates removed, first appearance kept.          *)
(***************************************************************************)
\* Mutant: the concatenated lists are dispatched as they are.
dedupeNone(list, seen) == list

RECURSIVE dedupe(_, _)
dedupe(list, seen) ==
    IF list = <<>> THEN <<>>
    ELSE IF Head(list) \in seen THEN dedupe(Tail(list), seen)
    ELSE <<Head(list)>> \o dedupe(Tail(list), seen \cup {Head(list)})

RECURSIVE concatUnlock(_)
concatUnlock(rules) ==
    IF rules = <<>> THEN <<>> ELSE Head(rules).unlock \o concatUnlock(Tail(rules))

(***************************************************************************)
(* The doors an event unlocks and the delay of the dispatch: the union of  *)
(* the matching rules, or the default action when no rule matches.         *)
(***************************************************************************)
doorsToUnlock(rules, defaultUnlock, group, locationName) ==
    LET m == matchingRules(rules, group, locationName)
    IN  IF Len(m) > 0 THEN dedupe(concatUnlock(m), {})
        ELSE IF Len(defaultUnlock) > 0 THEN defaultUnlock
        ELSE <<>>

\* Mutant: the longest delay among the matching rules is applied.
dispatchDelayLongest(rules, group, locationName) ==
    LET m == matchingRules(rules, group, locationName)
    IN  IF Len(m) = 0 THEN 0
        ELSE CHOOSE d \in {m[i].delay : i \in 1..Len(m)} :
                \A i \in 1..Len(m) : m[i].delay <= d

dispatchDelay(rules, group, locationName) ==
    LET m == matchingRules(rules, group, locationName)
    IN  IF Len(m) > 0 THEN m[1].delay ELSE 0


(***************************************************************************)
(* Raw payloads.  A payload is a record of the fields normalizeEvent       *)
(* reads: event and data (direct webhook), alarm (Alarm Manager), type     *)
(* and the flat fields (generic shape).  data._source is the log entry of  *)
(* a socket-push access.logs.add message.                                  *)
(***************************************************************************)
DoorUnlock        == "access.door.unlock"
DoorbellCompleted == "access.doorbell.completed"
DoorbellIncoming  == "access.doorbell.incoming"
LogsAdd           == "access.logs.add"
AlarmUnknown      == "alarm_manager.unknown"

UnknownLocation == <<"unknown">>

NoSource == [present |-> FALSE, event_type |-> "", targets |-> <<>>,
             actor_id |-> "", actor_name |-> NoName, reason_code |-> NoReason, extra |-> ExtraNull]

NoData == [present |-> FALSE, location_name |-> NoName, device_name |-> NoName,
           actor_id |-> "", reason_code |-> NoReason,
           object_extra |-> ExtraNull, extra |-> ExtraNull, source |-> NoSource]

\* triggers_type "array": triggers lists the trigger keys; "number": the
\* triggers field holds a non-zero number instead of an array.
NoAlarm == [present |-> FALSE, name |-> NoName, triggers |-> <<>>,
            triggers_type |-> "array"]

\* json "object": a JSON object with the fields below; "null": the JSON
\* value null; "scalar": a JSON number, string or boolean.
NoPayload == [json |-> "object",
              event |-> "", data |-> NoData, alarm |-> NoAlarm, type |-> "",
              location_name |-> NoName, actor_id |-> "",
              reason_code |-> NoReason, extra |-> ExtraNull]

NullPayload == [NoPayload EXCEPT !.json = "null"]

ScalarPayload == [NoPayload EXCEPT !.json = "scalar"]

NullEvent == [null |-> TRUE, type |-> "", locationName |-> NoName,
              deviceName |-> NoName, actorId |-> "", reasonCode |-> NoReason,
              extra |-> ExtraNull, source |-> NoSource]

(***************************************************************************)
(* RulesEngine.inferAlarmType.  A trigger key is a sequence of words; the  *)
(* substring 'doorbell' is the word door followed by the word bell.        *)
(***************************************************************************)
LowerWord(w) == CASE w = "DOOR" -> "door" [] w = "RING" -> "ring" [] OTHER -> w

hasWord(key, w) == \E i \in 1..Len(key) : LowerWord(key[i]) = w

hasDoorbell(key) ==
    \E i \in 1..(Len(key) - 1) :
        LowerWord(key[i]) = "door" /\ LowerWord(key[i + 1]) = "bell"

RECURSIVE inferAlarmType(_)
inferAlarmType(triggers) ==
    IF triggers = <<>> THEN AlarmUnknown
    ELSE LET key == Head(triggers)
         IN  IF hasWord(key, "unlock") \/ hasWord(key, "door") THEN DoorUnlock
             ELSE IF hasDoorbell(key) \/ hasWord(key, "ring") THEN DoorbellIncoming
             ELSE inferAlarmType(Tail(triggers))

(***************************************************************************)
(* The payloads on which normalizeEvent raises a TypeError instead of      *)
(* returning: raw.event read from null, and 'for (const t of triggers)'    *)
(* over a number in inferAlarmType.                                        *)
(***************************************************************************)
normalizeThrows(raw) ==
    \/ raw.json = "null"
    \/ /\ raw.json = "object"
       /\ ~(raw.event # "" /\ raw.data.present)
       /\ raw.alarm.present
       /\ raw.alarm.triggers_type = "number"

(***************************************************************************)
(* RulesEngine.normalizeEvent: direct shape, then alarm envelope, then     *)
(* generic shape, else null.                                               *)
(***************************************************************************)
normalizeEvent(raw) ==
    IF raw.event # "" /\ raw.data.present
    THEN [null |-> FALSE,
          type |-> raw.event,
          locationName |-> raw.data.location_name,
          deviceName |-> raw.data.device_name,
          actorId |-> raw.data.actor_id,
          reasonCode |-> raw.data.reason_code,
          extra |-> IF Truthy(raw.data.object_extra) THEN raw.data.object_extra
                    ELSE IF Truthy(raw.data.extra) THEN raw.data.extra
                    ELSE ExtraNull,
          source |-> raw.data.source]
    ELSE IF raw.alarm.present
    THEN [null |-> FALSE,
          type |-> inferAlarmType(raw.alarm.triggers),
          locationName |-> IF raw.alarm.name # NoName THEN raw.alarm.name
                           ELSE UnknownLocation,
          deviceName |-> NoName,
          actorId |-> "",
          reasonCode |-> NoReason,
          extra |-> ExtraNull,
          source |-> NoSource]
    ELSE IF raw.type # ""
    THEN [null |-> FALSE,
          type |-> raw.type,
          locationName |-> raw.location_name,
          deviceName |-> NoName,
          actorId |-> raw.actor_id,
          reasonCode |-> raw.reason_code,
          extra |-> raw.extra,
          source |-> NoSource]
    ELSE NullEvent

(***************************************************************************)
(* RulesEngine.handleWebSocketLog: the event re-derived from _source.      *)
(* Only the inner type and the first door target are taken over.           *)
(***************************************************************************)
RECURSIVE firstDoorTarget(_)
firstDoorTarget(targets) ==
    IF targets = <<>> THEN NoName
    ELSE IF Head(targets).type = "door" THEN Head(targets).display_name
    ELSE firstDoorTarget(Tail(targets))

\* source.target.find(t => t.type === 'door') reads t.type of every entry up
\* to the first door target: a null entry before it raises a TypeError.
RECURSIVE findThrows(_)
findThrows(targets) ==
    IF targets = <<>> THEN FALSE
    ELSE IF Head(targets).type = "null" THEN TRUE
    ELSE IF Head(targets).type = "door" THEN FALSE
    ELSE findThrows(Tail(targets))

\* Mutant: the last door target names the location.
unwrapLogLastDoor(event) ==
    [null |-> FALSE,
     type |-> event.source.event_type,
     locationName |->
        LET targets == event.source.targets
            at == {i \in 1..Len(targets) : targets[i].type = "door"}
        IN  IF at = {} THEN NoName
            ELSE targets[CHOOSE i \in at : \A j \in at : j <= i].display_name,
     deviceName |-> NoName,
     actorId |-> "",
     actorName |-> event.source.actor_name,
     reasonCode |-> NoReason,
     extra |-> ExtraNull,
     source |-> NoSource]

\* actorName: source.actor?.display_name.  Only the unwrapped event carries
\* it here: the name goes into the log line and the reason text alone.
unwrapLog(event) ==
    [null |-> FALSE,
     type |-> event.source.event_type,
     locationName |-> firstDoorTarget(event.source.targets),
     deviceName |-> NoName,
     actorId |-> "",
     actorName |-> event.source.actor_name,
     reasonCode |-> NoReason,
     extra |-> ExtraNull,
     source |-> NoSource]

(***************************************************************************)
(* What a handler decides for one event, before any door request is sent:  *)
(*   kind   "self" | "no_action" | "dispatch" | "gated" | "ring" | "none"  *)
(*          | "threw" (the call raised: handleEvent's promise rejects)      *)
(*   doors  the list handed to executeUnlocks                              *)
(*   delay  the seconds the dispatch is deferred by                        *)
(*   resolved, bell  the resolver calls and doorbell_events increments     *)
(*   steps  the stages of handleDoorUnlock the call went through, in order *)
(***************************************************************************)
Outcome(kind, doorList, delay, resolved, bell) ==
    [kind |-> kind, doors |-> doorList, delay |-> delay,
     resolved |-> resolved, bell |-> bell, steps |-> <<>>]

(***************************************************************************)
(* RulesEngine.handleDoorUnlock                                            *)
(***************************************************************************)
\* Mutant: the group is resolved before the event's extra is looked at.
handleDoorUnlockResolveFirst(cfg, event) ==
    LET group == resolve(cfg, event.actorId, "").group
        rules == normalizeRules(cfg.unlock_rules)
        list  == doorsToUnlock(rules, cfg.unlock_rules.default_unlock,
                               group, event.locationName)
    IN  IF isSelfTriggered(cfg.self_trigger, event.extra)
        THEN [Outcome("self", <<>>, 0, 1, 0)
                EXCEPT !.steps = <<"resolve", "self_check">>]
        ELSE IF Len(list) = 0
        THEN [Outcome("no_action", <<>>, 0, 1, 0)
                EXCEPT !.steps = <<"resolve", "self_check", "match">>]
        ELSE [Outcome("dispatch", list,
                      dispatchDelay(rules, group, event.locationName), 1, 0)
                EXCEPT !.steps = <<"resolve", "self_check", "match", "dispatch">>]

handleDoorUnlock(cfg, event) ==
    IF isSelfTriggered(cfg.self_trigger, event.extra)
    THEN [Outcome("self", <<>>, 0, 0, 0) EXCEPT !.steps = <<"self_check">>]
    ELSE LET group == resolve(cfg, event.actorId, "").group
             rules == normalizeRules(cfg.unlock_rules)
             list  == doorsToUnlock(rules, cfg.unlock_rules.default_unlock,
                                    group, event.locationName)
         IN  IF filterThrows(rules, group, event.locationName)
             THEN [Outcome("threw", <<>>, 0, 1, 0)
                     EXCEPT !.steps = <<"self_check", "resolve">>]
             ELSE IF Len(list) = 0
             THEN [Outcome("no_action", <<>>, 0, 1, 0)
                     EXCEPT !.steps = <<"self_check", "resolve", "match">>]
             ELSE [Outcome("dispatch", list,
                           dispatchDelay(rules, group, event.locationName), 1, 0)
                     EXCEPT !.steps = <<"self_check", "resolve", "match",
                                        "dispatch">>]

(***************************************************************************)
(* RulesEngine.handleDoorbellCompleted                                     *)
(***************************************************************************)
DefaultTriggerCode == 107

\* Mutant: the configured trigger code is ignored.
triggerCodeDefaultOnly(cfg) == DefaultTriggerCode

triggerCode(cfg) ==
    IF cfg.doorbell_rules.trigger_reason_code # NoReason
    THEN cfg.doorbell_rules.trigger_reason_code ELSE DefaultTriggerCode

viewerGroup(cfg, deviceName) ==
    IF deviceName \in DOMAIN cfg.doorbell_rules.viewer_to_group
    THEN cfg.doorbell_rules.viewer_to_group[deviceName] ELSE NoName

\* Mutant: the viewer table is consulted first, the actor only without it.
doorbellGroupViewerFirst(cfg, event) ==
    LET byDevice == IF event.deviceName # NoName
                    THEN viewerGroup(cfg, event.deviceName) ELSE NoName
    IN  IF byDevice # NoName THEN byDevice
        ELSE IF event.actorId # "" THEN resolve(cfg, event.actorId, "").group
        ELSE NoName

doorbellGroup(cfg, event) ==
    LET byActor == IF event.actorId # "" THEN resolve(cfg, event.actorId, "").group
                   ELSE NoName
    IN  IF byActor # NoName THEN byActor
        ELSE IF event.deviceName # NoName THEN viewerGroup(cfg, event.deviceName)
        ELSE NoName

\* Mutant: the doorbell handler falls back to the unlock rules' default.
handleDoorbellUnlockDefault(cfg, event) ==
    IF event.reasonCode # triggerCode(cfg)
    THEN Outcome("gated", <<>>, 0, 0, 1)
    ELSE LET group == doorbellGroup(cfg, event)
             calls1 == IF event.actorId # "" THEN 1 ELSE 0
             rules == normalizeRules(cfg.doorbell_rules)
             list  == doorsToUnlock(rules, cfg.unlock_rules.default_unlock,
                                    group, event.locationName)
         IN  IF Len(list) = 0 THEN Outcome("no_action", <<>>, 0, calls1, 1)
             ELSE Outcome("dispatch", list,
                          dispatchDelay(rules, group, event.locationName),
                          calls1, 1)

handleDoorbellCompleted(cfg, event) ==
    IF event.reasonCode # triggerCode(cfg)
    THEN Outcome("gated", <<>>, 0, 0, 1)
    ELSE LET group == doorbellGroup(cfg, event)
             calls1 == IF event.actorId # "" THEN 1 ELSE 0
             rules == normalizeRules(cfg.doorbell_rules)
             list  == doorsToUnlock(rules, cfg.doorbell_rules.default_unlock,
                                    group, event.locationName)
         IN  IF filterThrows(rules, group, event.locationName)
             THEN Outcome("threw", <<>>, 0, calls1, 1)
             ELSE IF Len(list) = 0 THEN Outcome("no_action", <<>>, 0, calls1, 1)
             ELSE Outcome("dispatch", list,
                          dispatchDelay(rules, group, event.locationName),
                          calls1, 1)

(***************************************************************************)
(* RulesEngine.handleWebSocketLog and the switch of handleEvent.           *)
(***************************************************************************)
handleWebSocketLog(cfg, event) ==
    IF ~event.source.present \/ event.source.event_type = ""
    THEN Outcome("none", <<>>, 0, 0, 0)
    ELSE IF findThrows(event.source.targets)
    THEN Outcome("threw", <<>>, 0, 0, 0)
    ELSE LET normalized == unwrapLog(event)
         IN  CASE normalized.type = DoorUnlock -> handleDoorUnlock(cfg, normalized)
               [] normalized.type = DoorbellCompleted ->
                      handleDoorbellCompleted(cfg, normalized)
               [] OTHER -> Outcome("none", <<>>, 0, 0, 0)

route(cfg, event) ==
    IF event.null THEN Outcome("none", <<>>, 0, 0, 0)
    ELSE CASE event.type = DoorUnlock -> handleDoorUnlock(cfg, event)
           [] event.type = DoorbellCompleted -> handleDoorbellCompleted(cfg, event)
           [] event.type = DoorbellIncoming -> Outcome("ring", <<>>, 0, 0, 1)
           [] event.type = LogsAdd -> handleWebSocketLog(cfg, event)
           [] OTHER -> Outcome("none", <<>>, 0, 0, 0)


(***************************************************************************)
(* Configurations (config.json).                                           *)
(***************************************************************************)
Rule(group, trigger, unlock, delay) ==
    [group |-> group, trigger |-> trigger, unlock |-> unlock, delay |-> delay]

GroupAction(group, unlock) == [group |-> group, unlock |-> unlock]

RulesArray(rules, defaultUnlock) ==
    [isArray |-> TRUE, rules |-> rules, trigger_location |-> NoName,
     group_actions |-> <<>>, default_unlock |-> defaultUnlock,
     viewer_to_group |-> [d \in {Viewer} |-> Office],
     trigger_reason_code |-> NoReason]

LegacyRules(trigger, groupActions, defaultUnlock) ==
    [isArray |-> FALSE, rules |-> <<>>, trigger_location |-> trigger,
     group_actions |-> groupActions, default_unlock |-> defaultUnlock,
     viewer_to_group |-> [d \in {Viewer} |-> Office],
     trigger_reason_code |-> NoReason]

NoMarker     == [marker_key |-> "", marker_value |-> ""]
SourceMarker == [marker_key |-> "source", marker_value |-> "middleware"]
ReasonMarker == [marker_key |-> "reason", marker_value |-> "middleware"]

Config(selfTrigger, unlockRules, doorbellRules) ==
    [self_trigger |-> selfTrigger,
     unlock_rules |-> unlockRules,
     doorbell_rules |-> doorbellRules,
     strategy_order |-> <<"api_group", "manual">>,
     policy_to_group |-> [p \in {"p1"} |-> Contractor],
     manual_overrides |-> [u \in {"u2"} |-> Tenant],
     \* event_source.api_webhook.secret and server.admin_api_key: "" is unset
     webhook_secret |-> "",
     admin_api_key |-> ""]

StdUnlockRules == <<Rule(Office, Front, <<Elevator>>, 0),
                    Rule(Tenant, Front, <<Suite>>, 1)>>

StdDoorbellRules == <<Rule(Office, Front, <<Elevator>>, 0),
                      Rule(Tenant, Front, <<Suite>>, 1)>>

(***************************************************************************)
(* Payload constructors and the payloads a transport delivers.             *)
(***************************************************************************)
Direct(type, location, device, actor, code, extra) ==
    [NoPayload EXCEPT
        !.event = type,
        !.data = [NoData EXCEPT !.present = TRUE, !.location_name = location,
                                !.device_name = device, !.actor_id = actor,
                                !.reason_code = code, !.object_extra = extra]]

DoorTarget(name) == [type |-> "door", display_name |-> name]

Log(type, targets, actor, code, extra) ==
    [NoPayload EXCEPT
        !.event = LogsAdd,
        !.data = [NoData EXCEPT !.present = TRUE,
                     !.source = [present |-> TRUE, event_type |-> type,
                                 targets |-> targets, actor_id |-> actor,
                                 actor_name |-> NoName,
                                 reason_code |-> code, extra |-> extra]]]

Alarm(name, triggers) ==
    [NoPayload EXCEPT !.alarm = [NoAlarm EXCEPT !.present = TRUE, !.name = name,
                                                !.triggers = triggers]]

\* An alarm envelope whose triggers field is a number.
AlarmNumber(name) ==
    [NoPayload EXCEPT !.alarm = [NoAlarm EXCEPT !.present = TRUE, !.name = name,
                                                !.triggers_type = "number"]]

\* The JSON value null as an entry of _source.target.
NullTarget == [type |-> "null", display_name |-> NoName]

Generic(type, location, actor, code, extra) ==
    [NoPayload EXCEPT !.type = type, !.location_name = location,
                      !.actor_id = actor, !.reason_code = code, !.extra = extra]

Marked(key) == ExtraObject([EmptyMap EXCEPT ![key] = "middleware"])

(***************************************************************************)
(* The configurations and the payloads of each scenario.                   *)
(***************************************************************************)
\* Self-trigger guard: every marker, with and without a default action.
GuardConfigs ==
    { Config(m, RulesArray(StdUnlockRules, d), RulesArray(StdDoorbellRules, <<>>)) :
        m \in {NoMarker, SourceMarker, ReasonMarker}, d \in {<<>>, <<Suite>>} }

GuardPayloads ==
    { Direct(DoorUnlock, Front, NoName, "u1", NoReason, x) :
        x \in {ExtraNull, Marked("source"), Marked("reason"), ExtraString} }
    \cup { Direct(DoorUnlock, Front, NoName, "u2", NoReason, ExtraNull),
           [Direct(DoorUnlock, Front, NoName, "u1", NoReason, ExtraNull)
               EXCEPT !.data.extra = Marked("source")],
           Generic(DoorUnlock, Front, "u1", NoReason, Marked("source")) }

\* Doorbell answers: every reason code against every configured trigger code.
BellConfigs ==
    { Config(SourceMarker, RulesArray(StdUnlockRules, <<>>),
             [RulesArray(StdDoorbellRules, b) EXCEPT !.trigger_reason_code = c]) :
        b \in {<<>>, <<Suite, Elevator>>}, c \in {NoReason, 106} }

BellPayloads ==
    { Direct(DoorbellCompleted, Front, d, a, c, ExtraNull) :
        d \in {NoName, Viewer}, a \in {"", "u1", "u2", "u3"},
        c \in {NoReason, 106, 107} }
    \cup { Direct(DoorbellIncoming, Front, NoName, "", NoReason, ExtraNull) }

\* Transport shapes: the same notifications as log entries, alarms, generic.
ShapeConfigs ==
    { Config(SourceMarker, RulesArray(StdUnlockRules, d),
             RulesArray(StdDoorbellRules, d)) : d \in {<<>>, <<Suite>>} }

ShapePayloads ==
    { Log(t, <<DoorTarget(Front)>>, a, c, ExtraNull) :
        t \in {DoorUnlock, DoorbellCompleted}, a \in {"", "u1", "u2"},
        c \in {NoReason, 107} }
    \cup { [NoPayload EXCEPT !.event = LogsAdd, !.data.present = TRUE],
           Log("", <<DoorTarget(Front)>>, "u1", NoReason, ExtraNull),
           Log("other", <<DoorTarget(Front)>>, "u1", NoReason, ExtraNull),
           Log(DoorUnlock, <<[type |-> "user", display_name |-> Suite],
                             DoorTarget(Front)>>, "u1", NoReason, Marked("source")),
           Direct("other", Front, NoName, "u1", NoReason, ExtraNull),
           Alarm(Front, << <<"door", "unlock">> >>),
           Alarm(NoName, << <<"motion">>, <<"RING">> >>),
           Alarm(Front, << <<"motion">> >>),
           Generic(DoorUnlock, Front, "u1", NoReason, ExtraNull),
           Generic(DoorUnlock, Front, "u2", NoReason, ExtraNull),
           Log(DoorUnlock, <<NullTarget, DoorTarget(Front)>>, "u1", NoReason,
               ExtraNull),
           AlarmNumber(Front),
           NullPayload,
           ScalarPayload,
           NoPayload }

\* Rule tables: every sequence of at most MaxRules distinct rules of the pool.
RulePool ==
    { Rule(Office, Front, <<Elevator, Ghost>>, 0),
      Rule(Office, FrontUpper, <<Suite, Elevator>>, 1),
      Rule(Tenant, Front, <<>>, 0) }

SeqsOver(pool, n) ==
    UNION { {q \in [1..k -> pool] : \A i, j \in 1..k : i # j => q[i] # q[j]} :
              k \in 0..n }

OtherDefault(d) == IF d = <<>> THEN <<Elevator>> ELSE <<>>

TableConfigs ==
    { Config(SourceMarker, RulesArray(t, d), RulesArray(t, OtherDefault(d))) :
        t \in SeqsOver(RulePool, MaxRules), d \in {<<>>, <<Suite>>} }

\* Legacy rule configurations: one trigger location, a map group -> unlock.
ActionPool ==
    { GroupAction(Office, <<Elevator, Suite>>),
      GroupAction(Office, <<>>),
      GroupAction(Tenant, <<Suite>>) }

GroupActionMaps ==
    { q \in SeqsOver(ActionPool, MaxRules) :
        \A i, j \in 1..Len(q) : i # j => q[i].group # q[j].group }

LegacyConfigs ==
    { Config(SourceMarker, LegacyRules(Front, g, d),
             LegacyRules(Front, g, OtherDefault(d))) :
        g \in GroupActionMaps, d \in {<<>>, <<Suite>>} }

RulePayloads ==
    { Direct(DoorUnlock, Front, NoName, a, NoReason, ExtraNull) :
        a \in {"", "u1", "u2"} }
    \cup { Direct(DoorUnlock, FrontPadded, NoName, "u1", NoReason, ExtraNull),
           Direct(DoorbellCompleted, Front, NoName, "u1", 107, ExtraNull),
           Direct(DoorbellCompleted, Front, Viewer, "", 107, ExtraNull) }

(***************************************************************************)
(* The controller echoes an accepted unlock command as a door-unlock       *)
(* notification of the unlocked door, with the command's actor and extra,  *)
(* in the shape of the transport in use.                                   *)
(***************************************************************************)
Shapes == {"direct", "alarm", "log"}

EchoPayload(e, shape) ==
    CASE shape = "direct" ->
            Direct(DoorUnlock, e.door, NoName, e.actor_id, NoReason, e.extra)
      [] shape = "alarm" -> Alarm(e.door, << <<"door", "unlock">> >>)
      [] OTHER ->
            Log(DoorUnlock, <<DoorTarget(e.door)>>, e.actor_id, NoReason, e.extra)

(***************************************************************************)
(* Statistics.                                                             *)
(***************************************************************************)
ZeroStats ==
    [events_received |-> 0, events_processed |-> 0, events_skipped_self |-> 0,
     events_skipped_location |-> 0, events_skipped_no_action |-> 0,
     unlocks_triggered |-> 0, unlocks_failed |-> 0, doorbell_events |-> 0]

Counters == DOMAIN ZeroStats

NoLast == [origin |-> "none", event |-> NullEvent,
           kind |-> "none", doors |-> <<>>, delay |-> 0, resolved |-> 0,
           steps |-> <<>>, before |-> ZeroStats, after |-> ZeroStats]

NoExec == [id |-> 0, doors |-> <<>>, results |-> <<>>, began |-> 0,
           before |-> ZeroStats, after |-> ZeroStats]

(***************************************************************************)
(* The server holds one engine at a time (let rulesEngine); a reload       *)
(* replaces it.  A replaced engine receives no further events, but the     *)
(* dispatches it has begun run on with its own configuration and counters. *)
(* Calls are numbered across engines: a replaced engine took the calls up  *)
(* to its upto.                                                            *)
(***************************************************************************)
engineStart == IF retired = <<>> THEN 0 ELSE retired[Len(retired)].upto

\* 0 for the engine in place, else the position in retired.
ownerOf(id) ==
    IF id > engineStart THEN 0
    ELSE CHOOSE i \in 1..Len(retired) :
            /\ id <= retired[i].upto
            /\ \A j \in 1..(i - 1) : id > retired[j].upto

\* Mutant: a dispatch runs with the configuration of the engine in place.
configOfInPlace(id) == config

configOf(id) == IF ownerOf(id) = 0 THEN config ELSE retired[ownerOf(id)].config

\* Mutant: a call resumes with the counters it read when it began.
statsOfAtStart(id) == probe[id].before

statsOf(id) == IF ownerOf(id) = 0 THEN stats ELSE retired[ownerOf(id)].stats

\* The place in notes of the engine that took call id.
engineOf(id) == IF ownerOf(id) = 0 THEN Len(retired) + 1 ELSE ownerOf(id)

\* last_event: null, last_unlock: null
NoNotes == [last_event |-> 0, last_unlock |-> 0]

(***************************************************************************)
(* executeUnlocks, first half: unlockDoorByName is called for every door   *)
(* before anything is awaited.  An unknown door fails at once; for a known *)
(* door the request is sent and pending.                                   *)
(***************************************************************************)
\* Mutant: the doors are taken in turn, the next one after the one before
\* it has settled.
startResultsInTurn(doorList) ==
    [i \in 1..Len(doorList) |->
        IF i > 1 THEN "queued"
        ELSE IF doorKnown(doorList[i]) THEN "pending" ELSE "failed"]

startResults(doorList) ==
    [i \in 1..Len(doorList) |->
        IF doorKnown(doorList[i]) THEN "pending" ELSE "failed"]

sentAfter(cfg, doorList, before) ==
    IF \E i \in 1..Len(doorList) : doorKnown(doorList[i])
    THEN unlockBody(cfg.self_trigger, ReasonText) ELSE before

\* began: the number of engines replaced before executeUnlocks began.
startUnlocks(id, doorList, counts) ==
    [id |-> id, doors |-> doorList, results |-> startResults(doorList),
     counts |-> counts, began |-> Len(retired)]

(***************************************************************************)
(* RulesEngine.handleEvent, up to its first suspension.                    *)
(***************************************************************************)
\* Mutant: a payload that is dropped is counted as skipped for no action.
statsAfterRouteDroppedSkipped(st, out) ==
    [st EXCEPT
        !.events_received = @ + 1,
        !.doorbell_events = @ + out.bell,
        !.events_skipped_self = @ + (IF out.kind = "self" THEN 1 ELSE 0),
        !.events_skipped_no_action =
            @ + (IF out.kind \in {"no_action", "none"} THEN 1 ELSE 0),
        !.events_processed =
            @ + (IF out.kind = "dispatch" /\ out.delay > 0 THEN 1 ELSE 0)]

\* Mutant: the call is counted once its payload has been recognised.
statsAfterRouteRecognizedOnly(st, out) ==
    [st EXCEPT
        !.events_received = @ + (IF out.kind \in {"none", "threw"} THEN 0 ELSE 1),
        !.doorbell_events = @ + out.bell,
        !.events_skipped_self = @ + (IF out.kind = "self" THEN 1 ELSE 0),
        !.events_skipped_no_action = @ + (IF out.kind = "no_action" THEN 1 ELSE 0),
        !.events_processed =
            @ + (IF out.kind = "dispatch" /\ out.delay > 0 THEN 1 ELSE 0)]

\* Mutant: a delayed dispatch is not counted as processed.
statsAfterRouteDelayedUncounted(st, out) ==
    [st EXCEPT
        !.events_received = @ + 1,
        !.doorbell_events = @ + out.bell,
        !.events_skipped_self = @ + (IF out.kind = "self" THEN 1 ELSE 0),
        !.events_skipped_no_action = @ + (IF out.kind = "no_action" THEN 1 ELSE 0)]

statsAfterRoute(st, out) ==
    [st EXCEPT
        !.events_received = @ + 1,
        !.doorbell_events = @ + out.bell,
        !.events_skipped_self = @ + (IF out.kind = "self" THEN 1 ELSE 0),
        !.events_skipped_no_action = @ + (IF out.kind = "no_action" THEN 1 ELSE 0),
        !.events_processed =
            @ + (IF out.kind = "dispatch" /\ out.delay > 0 THEN 1 ELSE 0)]

Handle(raw, origin) ==
    \E event \in {IF normalizeThrows(raw) THEN NullEvent
                  ELSE normalizeEvent(raw)} :
    \E out \in {IF normalizeThrows(raw) THEN Outcome("threw", <<>>, 0, 0, 0)
                ELSE route(config, event)} :
    \E id \in {nEvents + 1} :
        /\ nEvents' = id
        /\ stats' = statsAfterRoute(stats, out)
        /\ IF out.kind = "dispatch" /\ out.delay = 0
           THEN /\ calls' = calls \cup {startUnlocks(id, out.doors, TRUE)}
                /\ sent' = sentAfter(config, out.doors, sent)
                /\ timers' = timers
           ELSE IF out.kind = "dispatch"
           THEN /\ timers' = timers \cup {[id |-> id, doors |-> out.doors]}
                /\ UNCHANGED <<calls, sent>>
           ELSE UNCHANGED <<calls, sent, timers>>
        /\ last' = [origin |-> origin, event |-> event,
                    kind |-> out.kind, doors |-> out.doors, delay |-> out.delay,
                    resolved |-> out.resolved, steps |-> out.steps,
                    before |-> stats, after |-> stats']
        \* this.stats.last_event = {...}: once the payload has normalized
        /\ notes' = IF event.null THEN notes
                    ELSE [notes EXCEPT ![engineOf(id)].last_event = id]
        /\ UNCHANGED <<clientVars, config, retired, lastExec>>

\* POST /webhook, or a socket-push message, from outside.
ReceiveEvent(payloads, limit) ==
    \E raw \in payloads :
        nEvents < limit /\ Handle(raw, "external")
        /\ UNCHANGED <<echoes, server, probe>>

\* The controller delivers the notification of an unlock the client commanded.
DeliverEcho(limit) ==
    \E e \in echoes, shape \in Shapes :
        /\ nEvents < limit
        /\ Handle(EchoPayload(e, shape), e.issuer)
        /\ echoes' = echoes \ {e}
        /\ UNCHANGED <<server, probe>>

\* setTimeout callback of a delayed dispatch: executeUnlocks starts.
TimerFire ==
    \E t \in timers :
        /\ timers' = timers \ {t}
        /\ calls' = calls \cup {startUnlocks(t.id, t.doors, FALSE)}
        /\ sent' = sentAfter(configOf(t.id), t.doors, sent)
        /\ UNCHANGED <<server, clientVars, config, probe, retired, notes, stats, echoes, last, lastExec, nEvents>>

\* The controller may notify of an unlock it has carried out: the door, and
\* the actor and the extra of the command.  issuer tells the engine's
\* commands ("engine") from those of the manual test unlock ("manual").  A
\* notification that no handleEvent call of the behaviour is left to take is
\* not kept.
echoAfter(ok, door, body, issuer, limit) ==
    IF ok /\ nEvents < limit /\ Cardinality(echoes) < MaxEchoes
    THEN {echoes, echoes \cup {[door |-> door, actor_id |-> body.actor_id,
                                 extra |-> body.extra, issuer |-> issuer]}}
    ELSE {echoes}

\* The controller answers one pending PUT /doors/:id/unlock.
RequestSettles(limit) ==
    \E c \in calls, i \in 1..MaxDoors, ok \in BOOLEAN :
        /\ i <= Len(c.doors)
        /\ c.results[i] = "pending"
        /\ calls' = (calls \ {c}) \cup
                {[c EXCEPT !.results[i] = IF ok THEN "success" ELSE "failed"]}
        /\ echoes' \in echoAfter(ok, c.doors[i], sent, "engine", limit)
        /\ UNCHANGED <<server, clientVars, config, probe, retired, notes, stats, timers, sent, last, lastExec, nEvents>>

(***************************************************************************)
(* executeUnlocks, second half: all requests have settled; every outcome   *)
(* is counted, then the awaiting handler counts the event as processed.    *)
(***************************************************************************)
countOf(results, what) == Cardinality({i \in 1..Len(results) : results[i] = what})

\* Mutant: the loop over the results stops at the first failure.
statsAfterUnlocksUntilFailure(st, results) ==
    LET failedAt == {i \in 1..Len(results) : results[i] # "success"}
    IN  IF failedAt = {}
        THEN [st EXCEPT !.unlocks_triggered = @ + Len(results)]
        ELSE LET f == CHOOSE i \in failedAt : \A j \in failedAt : i <= j
             IN  [st EXCEPT !.unlocks_triggered = @ + (f - 1),
                            !.unlocks_failed = @ + 1]

statsAfterUnlocks(st, results) ==
    [st EXCEPT !.unlocks_triggered = @ + countOf(results, "success"),
               !.unlocks_failed = @ + (Len(results) - countOf(results, "success"))]

finishUnlocks(c) ==
        /\ \A i \in 1..Len(c.results) : c.results[i] # "pending"
        /\ calls' = calls \ {c}
        /\ LET before == statsOf(c.id)
               counted == statsAfterUnlocks(before, c.results)
               after == IF c.counts
                        THEN [counted EXCEPT !.events_processed = @ + 1]
                        ELSE counted
           IN  /\ lastExec' = [id |-> c.id, doors |-> c.doors, results |-> c.results,
                               began |-> c.began,
                               before |-> before, after |-> counted]
               /\ IF ownerOf(c.id) = 0
                  THEN stats' = after /\ retired' = retired
                  ELSE /\ stats' = stats
                       /\ retired' = [retired EXCEPT ![ownerOf(c.id)].stats = after]
               \* this.stats.last_unlock = {...} for every door that was unlocked
               /\ notes' = IF countOf(c.results, "success") > 0
                           THEN [notes EXCEPT ![engineOf(c.id)].last_unlock = c.id]
                           ELSE notes
        /\ UNCHANGED <<server, clientVars, config, timers, echoes, sent, last, nEvents>>

FinishUnlocks == \E c \in calls : finishUnlocks(c) /\ UNCHANGED probe

\* POST /test/unlock/:door
testUnlock(d, ok, limit) ==
    /\ doorKnown(d)
    /\ sent' = unlockBody(config.self_trigger, ReasonText)
    /\ echoes' \in echoAfter(ok, d, sent', "manual", limit)
    /\ UNCHANGED <<clientVars, config, probe, retired, notes, stats, calls, timers, last, lastExec, nEvents>>

TestUnlock(limit) ==
    \E d \in DoorNames, ok \in BOOLEAN :
        testUnlock(d, ok, limit) /\ UNCHANGED server

(***************************************************************************)
(* POST /reload and the auto-reload of PUT /api/config: the configuration  *)
(* file is read anew and a new client, resolver and engine are built from  *)
(* it; the engine in place is dropped, not altered.                        *)
(***************************************************************************)
\* Mutant: the new engine takes over the counters of the engine in place.
newEngineSharedStats(newConfig, old) == [config |-> newConfig, stats |-> old.stats]

\* new RulesEngine(newConfig, ...): its tables come from newConfig, its
\* counters start at zero.
newEngine(newConfig, old) == [config |-> newConfig, stats |-> ZeroStats]

\* rulesEngine = new RulesEngine(newConfig, unifiClient, resolver)
replaceEngine(newConfig) ==
    \E engine \in {newEngine(newConfig, [config |-> config, stats |-> stats])} :
        /\ Len(retired) < MaxReloads
        /\ retired' = Append(retired, [config |-> config, stats |-> stats,
                                       upto |-> nEvents])
        /\ config' = engine.config
        /\ stats' = engine.stats
        /\ notes' = Append(notes, NoNotes)
        /\ UNCHANGED <<probe, calls, timers, echoes, sent, last, lastExec, nEvents>>

\* A reload that no event and no timer interleaves with, against a
\* controller that answers the new client as it answered the one before.
reloadWith(newConfig) == replaceEngine(newConfig) /\ UNCHANGED clientVars

\* config.json is edited by hand, then POST /reload.
Reload(configs) ==
    \E newConfig \in configs :
        reloadWith(newConfig) /\ server' = [server EXCEPT !.file = newConfig]

\* The configurations config.json holds in turn, and the payloads received
\* between the reloads: an immediate and a delayed dispatch, and payloads
\* that are dropped or make the call fail.
ReloadConfigs ==
    { Config(NoMarker, RulesArray(StdUnlockRules, <<>>),
             RulesArray(StdDoorbellRules, <<>>)),
      Config(SourceMarker, RulesArray(<<Rule(Office, Front, <<Suite>>, 0)>>, <<>>),
             RulesArray(StdDoorbellRules, <<>>)) }

ReloadPayloads ==
    { Direct(DoorUnlock, Front, NoName, "u1", NoReason, ExtraNull),
      Direct(DoorUnlock, Front, NoName, "u2", NoReason, ExtraNull),
      NullPayload,
      ScalarPayload,
      AlarmNumber(Front),
      NoPayload }

\* One rule put before one (group, location) pair.
NoProbe ==
    [rule |-> Rule(Office, Front, <<>>, 0), group |-> NoName,
     locationName |-> NoName, done |-> FALSE, matched |-> FALSE]

\* No request has been answered; config.json is what loadConfig has read.
NoSignature == [scheme |-> "", mac |-> [secret |-> "", body |-> NoPayload]]

NoForm == [user_id |-> "", location |-> NoName, event_type |-> "",
           reason_code |-> [kind |-> "absent", value |-> NoReason],
           device_name |-> NoName]

serverAt(cfg) ==
    [route |-> "", status |-> 0, signature |-> NoSignature, body |-> NoPayload,
     key |-> "", form |-> NoForm, file |-> cfg]

EngineIdle ==
    /\ stats = ZeroStats
    /\ calls = {}
    /\ timers = {}
    /\ echoes = {}
    /\ sent = NoBody
    /\ last = NoLast
    /\ lastExec = NoExec
    /\ nEvents = 0
    /\ retired = <<>>
    /\ notes = <<NoNotes>>
    /\ server = serverAt(config)
    /\ client = PublishedCaches
    /\ service = ServiceUp
    /\ syncs = [i \in 1..MaxSyncs |-> IdleSync]
    /\ lastSync = NoSync

InitState == EngineIdle /\ probe = NoProbe

NextWith(payloads, limit) ==
    \/ ReceiveEvent(payloads, limit)
    \/ DeliverEcho(limit)
    \/ TimerFire
    \/ RequestSettles(limit)
    \/ FinishUnlocks
    \/ TestUnlock(limit)

\* The self-trigger guard and the echoes of the engine's own commands.
Init == config \in GuardConfigs /\ InitState
Next == NextWith(GuardPayloads, MaxEvents)
Spec == Init /\ [][Next]_vars

\* Doorbell answers.
InitBell == config \in BellConfigs /\ InitState
NextBell == NextWith(BellPayloads, MaxRuleEvents)
SpecBell == InitBell /\ [][NextBell]_vars

\* Transport shapes.
InitShape == config \in ShapeConfigs /\ InitState
NextShape == NextWith(ShapePayloads, MaxEvents)
SpecShape == InitShape /\ [][NextShape]_vars

\* Reloads between the events: the echoes of the commands are left out.
InitReload == config \in ReloadConfigs /\ InitState
NextReload ==
    \/ ReceiveEvent(ReloadPayloads, MaxEvents)
    \/ TimerFire
    \/ RequestSettles(0)
    \/ FinishUnlocks
    \/ Reload(ReloadConfigs)
SpecReload == InitReload /\ [][NextReload]_vars

\* Membership syncs running beside the handling of events.
SyncConfigs ==
    { Config(NoMarker, RulesArray(StdUnlockRules, <<>>),
             RulesArray(StdDoorbellRules, <<>>)) }

SyncPayloads ==
    { Direct(DoorUnlock, Front, NoName, u, NoReason, ExtraNull) : u \in {"u1", "u2"} }

InitSync == config \in SyncConfigs /\ InitState
NextSync ==
    \/ ReceiveEvent(SyncPayloads, MaxRuleEvents)
    \/ TimerFire
    \/ RequestSettles(0)
    \/ FinishUnlocks
    \/ SyncStart
    \/ SyncGroupsListed
    \/ SyncMembersFetched
    \/ SyncSwap
SpecSync == InitSync /\ [][NextSync]_vars

\* Rule tables.
InitRules == config \in TableConfigs /\ InitState
NextRules == NextWith(RulePayloads, MaxRuleEvents)
SpecRules == InitRules /\ [][NextRules]_vars

\* Legacy rule configurations.  A legacy rule carries no delay, so no
\* dispatch is ever deferred and no timer exists.
InitLegacy == config \in LegacyConfigs /\ InitState
NextLegacy ==
    \/ ReceiveEvent(RulePayloads, MaxRuleEvents)
    \/ DeliverEcho(MaxRuleEvents)
    \/ RequestSettles(MaxRuleEvents)
    \/ FinishUnlocks
    \/ TestUnlock(MaxRuleEvents)
SpecLegacy == InitLegacy /\ [][NextLegacy]_vars

(***************************************************************************)
(* Properties.                                                             *)
(***************************************************************************)
markerConfigured ==
    config.self_trigger.marker_key # "" /\ config.self_trigger.marker_value # ""

\* The last handleEvent call started or scheduled a dispatch.
dispatchedForLast ==
    \/ \E c \in calls : c.id = nEvents
    \/ \E t \in timers : t.id = nEvents
    \/ lastExec.id = nEvents

\* C1 (as claimed): with a marker configured, an unlock command the engine
\* issued with that marker in its extra and that the controller echoes back,
\* in whichever shape, never causes a further dispatch.
C1_EchoNeverDispatches ==
    (/\ markerConfigured
     /\ nEvents > 0
     /\ last.origin = "engine"
     /\ sent.extra.map[config.self_trigger.marker_key]
            = config.self_trigger.marker_value)
        => (last.kind # "dispatch" /\ ~dispatchedForLast)

\* The last event is a door-unlock event whose extra is a mapping that holds
\* the configured marker value under the configured marker key.
lastCarriesMarker ==
    /\ nEvents > 0
    /\ ~last.event.null
    /\ last.event.type = DoorUnlock
    /\ markerConfigured
    /\ last.event.extra.kind = "object"
    /\ last.event.extra.map[config.self_trigger.marker_key]
            = config.self_trigger.marker_value

\* C2 (as claimed): a door-unlock event carrying the configured marker makes
\* zero dispatch calls and increments events_skipped_self by 1 and no other
\* counter.
C2_OnlySelfSkipCounter ==
    lastCarriesMarker =>
        /\ ~dispatchedForLast
        /\ \A c \in Counters :
              last.after[c] = last.before[c]
                  + (IF c = "events_skipped_self" THEN 1 ELSE 0)

\* C2 (amended): a door-unlock event carrying the configured marker makes
\* zero dispatch calls, consults no resolver, and increments
\* events_skipped_self by exactly 1; apart from events_received, which every
\* call increments by 1, no other counter changes.
C2_SelfSkip ==
    lastCarriesMarker =>
        /\ last.kind = "self"
        /\ last.doors = <<>>
        /\ last.resolved = 0
        /\ ~dispatchedForLast
        /\ \A c \in Counters :
              last.after[c] = last.before[c]
                  + (IF c \in {"events_skipped_self", "events_received"}
                     THEN 1 ELSE 0)

C2_Witness ==
    /\ lastCarriesMarker
    /\ config.self_trigger.marker_key = "reason"
    /\ stats.events_skipped_self = 1
    /\ stats.events_received = 2

\* C3 (as claimed): every unlock request the client sends carries the
\* configured marker key and value in its extra.
C3_RequestCarriesMarker ==
    (sent # NoBody /\ markerConfigured) =>
        /\ sent.extra.kind = "object"
        /\ sent.extra.map[config.self_trigger.marker_key]
              = config.self_trigger.marker_value

\* C4: a doorbell-completed event whose reason code differs from the
\* configured trigger code (107 when none is configured) dispatches no
\* unlock and does not consult the resolver.
C4_ReasonCodeGate ==
    (/\ nEvents > 0
     /\ ~last.event.null
     /\ last.event.type = DoorbellCompleted
     /\ last.event.reasonCode #
            (IF config.doorbell_rules.trigger_reason_code = NoReason
             THEN 107 ELSE config.doorbell_rules.trigger_reason_code))
        => (/\ last.kind = "gated"
            /\ last.doors = <<>>
            /\ last.resolved = 0
            /\ ~dispatchedForLast)

C4_Witness ==
    /\ nEvents > 0
    /\ last.event.type = DoorbellCompleted
    /\ last.event.reasonCode = 107
    /\ last.event.deviceName = Viewer
    /\ config.doorbell_rules.trigger_reason_code = 106
    /\ config.doorbell_rules.default_unlock # <<>>
    /\ last.kind = "gated"

\* The notification a log entry wraps, in the direct webhook shape.
directOfLog(source) ==
    Direct(source.event_type, firstDoorTarget(source.targets), NoName,
           source.actor_id, source.reason_code, source.extra)

\* C5 (as claimed): a door-unlock or doorbell-completed notification in the
\* socket-push log wrapper leads to the same dispatch as the same
\* notification in the direct webhook shape.
C5_LogSameAsDirect ==
    (/\ nEvents > 0
     /\ ~last.event.null
     /\ last.event.type = LogsAdd
     /\ last.event.source.present
     /\ last.event.source.event_type \in {DoorUnlock, DoorbellCompleted})
        => LET direct == route(config,
                               normalizeEvent(directOfLog(last.event.source)))
           IN  last.kind = direct.kind /\ last.doors = direct.doors


(***************************************************************************)
(* The rule filter on its own: a rule of a rule table is put before a      *)
(* resolved group and an event location.                                   *)
(***************************************************************************)
ProbeRules ==
    { Rule(g, t, <<Elevator>>, 0) :
        g \in {Office, <<"A">>},
        t \in {NoName, Front, <<" ">>, <<"A", " ">>} }

MatchConfig == Config(NoMarker, RulesArray(<<>>, <<>>), RulesArray(<<>>, <<>>))

InitMatch ==
    /\ config = MatchConfig
    /\ EngineIdle
    /\ probe \in { [rule |-> r, group |-> g, locationName |-> l,
                     done |-> FALSE, matched |-> FALSE] :
                      r \in ProbeRules, g \in StrUpTo(MaxGroupLen),
                      l \in StrUpTo(MaxStrLen) }

\* rules.filter(rule => rule.group === group
\*                      && this.locationMatches(locationName, rule.trigger))
Match ==
    /\ ~probe.done
    /\ probe' = [probe EXCEPT
            !.done = TRUE,
            !.matched = ruleMatches(probe.rule, probe.group, probe.locationName)]
    /\ UNCHANGED <<server, clientVars, notes, config, stats, calls, timers, echoes, sent, last, lastExec,
                   nEvents, retired>>

NextMatch == Match
SpecMatch == InitMatch /\ [][NextMatch]_vars

\* Resolver.resolve put before every configured order of strategies.  u1 is
\* in the directory (Office) and has a manual override (Tenant); u2 has the
\* override only; u3 is known to neither.  "badge" is no strategy.
Strategies == {"api_group", "manual", "policy_name", "badge"}

StrategyOrders == SeqsOver(Strategies, MaxStrategies)

ResolveConfigs ==
    { [Config(NoMarker, RulesArray(<<>>, <<>>), RulesArray(<<>>, <<>>)) EXCEPT
            !.strategy_order = o,
            !.manual_overrides = [u \in {"u1", "u2"} |-> Tenant]] :
        o \in StrategyOrders }

NoResolveProbe ==
    [userId |-> "", policyName |-> "", done |-> FALSE,
     result |-> resolve(MatchConfig, "", "")]

InitResolve ==
    /\ config \in ResolveConfigs
    /\ EngineIdle
    /\ probe \in { [NoResolveProbe EXCEPT !.userId = u, !.policyName = p] :
                      u \in {"", "u1", "u2", "u3"}, p \in {"", "p1", "p2"} }

\* resolver.resolve(userId, { policy_name })
Resolve ==
    /\ ~probe.done
    /\ probe' = [probe EXCEPT
            !.done = TRUE,
            !.result = resolve(config, probe.userId, probe.policyName)]
    /\ UNCHANGED <<server, clientVars, notes, config, stats, calls, timers, echoes, sent, last,
                   lastExec, nEvents, retired>>

NextResolve == Resolve
SpecResolve == InitResolve /\ [][NextResolve]_vars

\* normalizeEvent and the switch of handleEvent put before one payload.
\* Trigger keys are built from the parts below ("door", "bell" in a row read
\* 'doorbell'); a trigger list is one key, or a key beside one that names
\* nothing.  The other payloads match several shapes at once, or none.
KeyParts == {"door", "bell", "unlock", "RING", "motion"}

TriggerKeys == UNION { [1..k -> KeyParts] : k \in 0..MaxKeyWords }

TriggerLists ==
    {<<>>} \cup { <<k>> : k \in TriggerKeys }
           \cup { <<<<"motion">>, k>> : k \in TriggerKeys }
           \cup { <<k, <<"unlock">> >> : k \in TriggerKeys }

DecodeConfig ==
    Config(NoMarker, RulesArray(StdUnlockRules, <<Suite>>),
           RulesArray(StdDoorbellRules, <<Suite>>))

MixedPayloads ==
    { [NoPayload EXCEPT
            !.event = e,
            !.data = IF d THEN [NoData EXCEPT !.present = TRUE,
                                              !.location_name = Front,
                                              !.actor_id = "u1"]
                     ELSE NoData,
            !.alarm = a,
            !.type = t,
            !.location_name = Front] :
        e \in {"", DoorUnlock}, d \in BOOLEAN, t \in {"", DoorbellIncoming},
        a \in {NoAlarm, Alarm(Elevator, << <<"RING">> >>).alarm,
               AlarmNumber(Elevator).alarm} }

DecodePayloads ==
    { Alarm(Front, l) : l \in TriggerLists }
        \cup MixedPayloads \cup {NullPayload, ScalarPayload}

NoDecodeProbe ==
    [raw |-> NoPayload, done |-> FALSE, threw |-> FALSE, event |-> NullEvent,
     kind |-> "none", doors |-> <<>>]

InitDecode ==
    /\ config = DecodeConfig
    /\ EngineIdle
    /\ probe \in { [NoDecodeProbe EXCEPT !.raw = r] : r \in DecodePayloads }

\* const event = this.normalizeEvent(rawPayload), then the switch.
Decode ==
    /\ ~probe.done
    /\ \E threw \in {normalizeThrows(probe.raw)} :
       \E event \in {IF threw THEN NullEvent ELSE normalizeEvent(probe.raw)} :
       \E out \in {IF threw THEN Outcome("threw", <<>>, 0, 0, 0)
                   ELSE route(config, event)} :
            probe' = [probe EXCEPT !.done = TRUE, !.threw = threw,
                                   !.event = event, !.kind = out.kind,
                                   !.doors = out.doors]
    /\ UNCHANGED <<server, clientVars, notes, config, stats, calls, timers, echoes, sent, last,
                   lastExec, nEvents, retired>>

NextDecode == Decode
SpecDecode == InitDecode /\ [][NextDecode]_vars

(***************************************************************************)
(* Name equality as the rule tables are meant to be read: the text between *)
(* the first and the last non-blank character, letter case ignored.        *)
(***************************************************************************)
Range(q) == {q[i] : i \in 1..Len(q)}

NonBlank(x) == {i \in 1..Len(x) : x[i] # " "}

Min(S) == CHOOSE m \in S : \A n \in S : m <= n

Max(S) == CHOOSE m \in S : \A n \in S : m >= n

Core(x) == IF NonBlank(x) = {} THEN <<>>
           ELSE SubSeq(x, Min(NonBlank(x)), Max(NonBlank(x)))

CaseFoldEq(x, y) ==
    Len(x) = Len(y) /\ \A i \in 1..Len(x) : Lower(x[i]) = Lower(y[i])

sameLocation(x, y) == x # <<>> /\ y # <<>> /\ CaseFoldEq(Core(x), Core(y))

\* The last event reached rule matching: a door-unlock event that is not
\* self-triggered, or a doorbell-completed event with the trigger code.
lastIsUnlock ==
    /\ nEvents > 0
    /\ ~last.event.null
    /\ last.event.type = DoorUnlock
    /\ last.kind # "self"

lastIsAnswer ==
    /\ nEvents > 0
    /\ ~last.event.null
    /\ last.event.type = DoorbellCompleted
    /\ last.kind # "gated"

lastRules == IF lastIsUnlock THEN normalizeRules(config.unlock_rules)
             ELSE normalizeRules(config.doorbell_rules)

lastDefault == IF lastIsUnlock THEN config.unlock_rules.default_unlock
               ELSE config.doorbell_rules.default_unlock

lastGroup == IF lastIsUnlock THEN resolve(config, last.event.actorId, "").group
             ELSE doorbellGroup(config, last.event)

\* The entries of a table that apply to a group at a location.
applicable(rules, group, location) ==
    {i \in 1..Len(rules) :
        rules[i].group = group /\ sameLocation(rules[i].trigger, location)}

lastApplicable == applicable(lastRules, lastGroup, last.event.locationName)

reorderings(rules) ==
    {q \in [1..Len(rules) -> Range(rules)] : Range(q) = Range(rules)}

\* The list the last event's dispatch, running or scheduled, works on.
lastDispatchIsRecorded ==
    /\ \A c \in calls : c.id = nEvents => c.doors = last.doors
    /\ \A t \in timers : t.id = nEvents => t.doors = last.doors
    /\ lastExec.id = nEvents => lastExec.doors = last.doors

\* C6: when several rules match the (group, location) of an event, the event
\* dispatches exactly the union of their unlock lists, each door once, and the
\* set of doors is the same for every declaration order of the rules.
C6_RuleUnion ==
    ((lastIsUnlock \/ lastIsAnswer) /\ lastApplicable # {}) =>
        /\ Range(last.doors) = UNION {Range(lastRules[i].unlock) : i \in lastApplicable}
        /\ Cardinality(Range(last.doors)) = Len(last.doors)
        /\ lastDispatchIsRecorded
        /\ (last.doors # <<>>) = (last.kind = "dispatch")
        /\ \A q \in reorderings(lastRules) :
              Range(doorsToUnlock(q, lastDefault, lastGroup,
                                  last.event.locationName)) = Range(last.doors)

C6_Witness ==
    /\ lastIsUnlock
    /\ Cardinality(lastApplicable) = 2
    /\ Len(last.doors) = 3
    /\ lastRules[1].unlock = <<Suite, Elevator>>
    /\ lastExec.id = nEvents

\* C7: an event whose (group, location) matches no rule dispatches exactly
\* the default action's door list when that list is not empty and nothing
\* when it is empty; a door-unlock event takes the default of unlock_rules, a
\* doorbell-completed event the default of doorbell_rules.
C7_DefaultFallback ==
    [][(/\ nEvents' # nEvents
        /\ (lastIsUnlock' \/ lastIsAnswer')
        /\ lastApplicable' = {})
        => /\ last'.doors = lastDefault'
           /\ lastDefault' # <<>> =>
                 /\ last'.kind = "dispatch"
                 /\ timers' = timers
                 /\ calls' # calls
                 /\ \A c \in calls' \ calls :
                        c.id = nEvents' /\ c.doors = lastDefault'
           /\ lastDefault' = <<>> =>
                 /\ last'.kind = "no_action"
                 /\ calls' = calls
                 /\ timers' = timers]_vars

C7_Witness ==
    /\ lastIsAnswer
    /\ lastApplicable = {}
    /\ lastRules # <<>>
    /\ config.unlock_rules.default_unlock = <<>>
    /\ last.doors = <<Elevator>>
    /\ lastExec.id = nEvents


\* C8 (as claimed): a rule matches iff its group equals the resolved group and
\* its trigger equals the event location, each compared exactly after
\* trimming surrounding whitespace and ignoring letter case.
nameEq(x, y) == CaseFoldEq(Core(x), Core(y))

C8_MatchFoldsBoth ==
    probe.done =>
        (probe.matched <=> (/\ nameEq(probe.rule.group, probe.group)
                            /\ nameEq(probe.rule.trigger, probe.locationName)))

\* C8 (amended): a rule matches iff its group is identical, character for
\* character, to the resolved group, and its trigger and the event location
\* are both non-empty and equal after trimming surrounding whitespace and
\* ignoring letter case (no prefix or substring counts).
C8_MatchExactGroupFoldedLocation ==
    probe.done =>
        (probe.matched <=> (/\ probe.rule.group = probe.group
                            /\ sameLocation(probe.rule.trigger, probe.locationName)))

C8_Witness ==
    /\ probe.done
    /\ probe.matched
    /\ probe.rule.trigger = <<"A", " ">>
    /\ probe.locationName = <<" ", "a">>

\* The rule table a handler reads for an event, and the modern array that
\* lists the records of a legacy table.
listedRules(rulesConfig) ==
    [i \in 1..Len(rulesConfig.group_actions) |->
        Rule(rulesConfig.group_actions[i].group, rulesConfig.trigger_location,
             rulesConfig.group_actions[i].unlock, 0)]

arrayOf(rulesConfig) ==
    [rulesConfig EXCEPT !.isArray = TRUE, !.rules = listedRules(rulesConfig),
                        !.trigger_location = NoName, !.group_actions = <<>>]

modernOf(cfg) ==
    [cfg EXCEPT !.unlock_rules = arrayOf(cfg.unlock_rules),
                !.doorbell_rules = arrayOf(cfg.doorbell_rules)]

\* C9: under a legacy configuration every event yields the dispatched doors
\* and the counter changes it yields under the modern rules array listing the
\* same (group, trigger, unlock) records, groups with an empty unlock list
\* included.
C9_LegacySameAsModern ==
    (nEvents > 0 /\ ~config.unlock_rules.isArray) =>
        \E out \in {route(modernOf(config), last.event)} :
            /\ out.kind = last.kind
            /\ out.doors = last.doors
            /\ out.delay = last.delay
            /\ statsAfterRoute(last.before, out) = last.after

\* C10: an executeUnlocks over n doors of which k fail adds exactly k to
\* unlocks_failed and n-k to unlocks_triggered and changes no other counter;
\* every door of the list is attempted and has its own outcome recorded,
\* whatever happened to the others.
failures(results) == {i \in 1..Len(results) : results[i] = "failed"}

C10_PartialFailure ==
    lastExec.id # 0 =>
        \E n \in {Len(lastExec.doors)} :
        \E k \in {Cardinality(failures(lastExec.results))} :
            /\ Len(lastExec.results) = n
            /\ \A i \in 1..n : lastExec.results[i] \in {"success", "failed"}
            /\ \A i \in 1..n : ~doorKnown(lastExec.doors[i])
                                  => lastExec.results[i] = "failed"
            /\ lastExec.after = [lastExec.before EXCEPT
                    !.unlocks_failed = @ + k,
                    !.unlocks_triggered = @ + (n - k)]

C10_Witness ==
    /\ lastExec.id # 0
    /\ Len(lastExec.doors) = 3
    /\ lastExec.results = <<"success", "failed", "success">>

\* C11: handleEvent never throws or rejects for any payload a transport can
\* hand it: null, a non-object JSON value and envelopes with fields of
\* unexpected types are dropped.
C11_NeverThrows ==
    nEvents > 0 => last.kind # "threw"

\* C12: events_received of an engine equals the number of handleEvent calls
\* made on it so far, whatever the payloads: also those that fail to
\* normalize and those whose handling fails.
callsTaken(i) == retired[i].upto - (IF i = 1 THEN 0 ELSE retired[i - 1].upto)

C12_ReceivedCountsCalls ==
    /\ stats.events_received = nEvents - engineStart
    /\ \A i \in 1..Len(retired) : retired[i].stats.events_received = callsTaken(i)

C12_Witness ==
    /\ retired = <<>>
    /\ last.kind = "threw"
    /\ last.before.events_received = 1
    /\ stats.events_received = 2
    /\ stats.unlocks_failed + stats.unlocks_triggered > 0

\* C18: a reload installs a new engine whose counters are all zero and whose
\* configuration is the newly loaded one; the replaced engine's configuration
\* and counters are those it had when the reload began; no engine's
\* configuration changes at any other step.
C18_ReloadInstallsFreshEngine ==
    [][ /\ Len(retired') > Len(retired) =>
            /\ stats' = ZeroStats
            /\ config' \in ReloadConfigs
            /\ retired' = Append(retired, [config |-> config, stats |-> stats,
                                           upto |-> nEvents])
        /\ Len(retired') = Len(retired) =>
            /\ config' = config
            /\ \A i \in 1..Len(retired) :
                    /\ retired'[i].config = retired[i].config
                    /\ retired'[i].upto = retired[i].upto ]_vars

C18_Witness ==
    /\ retired # <<>>
    /\ retired[1].config # config
    /\ retired[1].stats.events_received > 0
    /\ retired[1].stats.unlocks_triggered > 0
    /\ lastExec.id # 0
    /\ lastExec.after = retired[1].stats
    /\ stats.events_received > 0

\* C16: when a membership sync fails, the published userId -> group map
\* stays as it was before the sync: both when listing the groups fails and
\* when fetching the members of one group fails.
C16_FailedSyncKeepsMap ==
    lastSync.failed => lastSync.after = lastSync.before

\* C17: under every interleaving of membership syncs with event handling,
\* getGroupForUser and getUserName read the complete caches of the previous
\* sync or the complete caches of a sync over the directory: never a part of
\* the new entries, never a group map and a name map of different syncs.
CompleteCaches == withMembers(withMembers(EmptyCaches, Directory[1]), Directory[2])

yielded(strategy) ==
    IF strategy = "api_group" /\ probe.userId \in DOMAIN client.userGroupMap
    THEN client.userGroupMap[probe.userId]
    ELSE IF strategy = "manual" /\ probe.userId \in DOMAIN config.manual_overrides
    THEN config.manual_overrides[probe.userId]
    ELSE IF strategy = "policy_name"
            /\ probe.policyName \in DOMAIN config.policy_to_group
    THEN config.policy_to_group[probe.policyName]
    ELSE NoName

yielding == {i \in 1..Len(config.strategy_order) :
                yielded(config.strategy_order[i]) # NoName}

C13_FirstStrategyWins ==
    (probe.done /\ probe.userId # "") =>
        /\ probe.result.group = NoName <=> yielding = {}
        /\ yielding = {} => probe.result.strategy = ""
        /\ \A i \in yielding :
                (\A j \in yielding : i <= j) =>
                    /\ probe.result.group = yielded(config.strategy_order[i])
                    /\ probe.result.strategy = config.strategy_order[i]

\* u1 with the manual override ahead of the directory group.
C13_Witness ==
    /\ probe.done
    /\ probe.userId = "u1"
    /\ probe.policyName = "p1"
    /\ config.strategy_order = <<"badge", "manual", "api_group">>
    /\ probe.result.group = Tenant
    /\ probe.result.strategy = "manual"

\* C14: resolve with an absent or empty userId returns group, strategy and
\* userName null, and consults no strategy and no directory lookup.
C14_EmptyUserShortCircuits ==
    (probe.done /\ probe.userId = "") =>
        /\ probe.result.group = NoName
        /\ probe.result.strategy = ""
        /\ probe.result.userName = ""
        /\ probe.result.consulted = <<>>
        /\ probe.result.nameLookups = 0

C14_Witness ==
    /\ probe.done
    /\ probe.userId = ""
    /\ probe.policyName = "p1"
    /\ config.strategy_order = <<"policy_name", "api_group", "manual">>

\* C15: in doorbell-completed handling with the trigger reason code, the
\* group is the actor's resolved group when the actor id resolves to one; the
\* viewer-to-group table is consulted with the device name only when no
\* group was found via the actor; with neither, no rule applies and only the
\* doorbell default action's doors can be dispatched.
answerActorGroup == resolve(config, last.event.actorId, "").group

answerViewerGroup ==
    IF last.event.deviceName \in DOMAIN config.doorbell_rules.viewer_to_group
    THEN config.doorbell_rules.viewer_to_group[last.event.deviceName]
    ELSE NoName

answerGroup == IF answerActorGroup # NoName THEN answerActorGroup
               ELSE answerViewerGroup

answerRules ==
    applicable(normalizeRules(config.doorbell_rules), answerGroup,
               last.event.locationName)

C15_ActorBeforeViewer ==
    lastIsAnswer =>
        IF answerGroup # NoName /\ answerRules # {}
        THEN Range(last.doors) =
                UNION {Range(normalizeRules(config.doorbell_rules)[i].unlock) :
                          i \in answerRules}
        ELSE last.doors = config.doorbell_rules.default_unlock

\* An answer by u2 (group Tenant) on the viewer mapped to Office.
C15_Witness ==
    /\ lastIsAnswer
    /\ last.event.actorId = "u2"
    /\ last.event.deviceName = Viewer
    /\ answerViewerGroup = Office
    /\ last.kind = "dispatch"
    /\ last.doors = <<Suite>>

\* C19: for an alarm-envelope payload the type is inferred from the trigger
\* keys, case-insensitively: a key containing 'unlock' or 'door' gives
\* access.door.unlock, a key containing 'doorbell' or 'ring' gives
\* access.doorbell.incoming, and when no key contains any of them the type
\* is the unrecognized-alarm marker, no handler runs and nothing is
\* dispatched.  Read on the first key of the list that names anything; a
\* key that names both kinds is left open.
folded(part) == IF part = "RING" THEN "ring" ELSE part

namesBell(key) ==
    \/ \E i \in 1..Len(key) : folded(key[i]) = "ring"
    \/ \E i \in 1..(Len(key) - 1) : key[i] = "door" /\ key[i + 1] = "bell"

\* 'unlock', or a 'door' that is not the one of 'doorbell'.
namesUnlock(key) ==
    \/ \E i \in 1..Len(key) : key[i] = "unlock"
    \/ \E i \in 1..Len(key) :
            key[i] = "door" /\ ~(i < Len(key) /\ key[i + 1] = "bell")

naming(triggers) ==
    {i \in 1..Len(triggers) : namesBell(triggers[i]) \/ namesUnlock(triggers[i])}

isAlarmProbe ==
    /\ probe.done
    /\ probe.raw.json = "object"
    /\ ~(probe.raw.event # "" /\ probe.raw.data.present)
    /\ probe.raw.alarm.present
    /\ probe.raw.alarm.triggers_type = "array"

C19_AlarmTypeInference ==
    isAlarmProbe =>
        \E triggers \in {probe.raw.alarm.triggers} :
            IF naming(triggers) = {}
            THEN /\ probe.event.type = AlarmUnknown
                 /\ probe.kind = "none"
                 /\ probe.doors = <<>>
            ELSE \E key \in {triggers[Min(naming(triggers))]} :
                    /\ (namesUnlock(key) /\ ~namesBell(key))
                            => probe.event.type = DoorUnlock
                    /\ (namesBell(key) /\ ~namesUnlock(key))
                            => probe.event.type = DoorbellIncoming

\* C20: normalizeEvent tries the shapes in the order direct, alarm envelope,
\* generic and returns on the first that matches; for every payload it
\* returns an event whose type is set, or null; a payload matching several
\* shapes is decoded as the earliest one.
isDirect(raw) == raw.json = "object" /\ raw.event # "" /\ raw.data.present

isAlarm(raw) == raw.json = "object" /\ raw.alarm.present

isGeneric(raw) == raw.json = "object" /\ raw.type # ""

C20_ShapeOrderTotal ==
    probe.done =>
        \E raw \in {probe.raw} :
            /\ ~probe.threw
            /\ probe.event.null <=> ~(isDirect(raw) \/ isAlarm(raw) \/ isGeneric(raw))
            /\ ~probe.event.null => probe.event.type # ""
            /\ isDirect(raw) =>
                    /\ probe.event.type = raw.event
                    /\ probe.event.locationName = raw.data.location_name
                    /\ probe.event.actorId = raw.data.actor_id
            /\ (~isDirect(raw) /\ isAlarm(raw)) =>
                    /\ probe.event.type \in {DoorUnlock, DoorbellIncoming, AlarmUnknown}
                    /\ probe.event.locationName = raw.alarm.name
                    /\ probe.event.actorId = ""
            /\ (~isDirect(raw) /\ ~isAlarm(raw) /\ isGeneric(raw)) =>
                    /\ probe.event.type = raw.type
                    /\ probe.event.locationName = raw.location_name

fromLast == {c \in calls : c.id = nEvents} \cup {t \in timers : t.id = nEvents}

\* C21: a payload of no recognized shape changes nothing in the engine but
\* events_received, which grows by one: no other counter, not last_event,
\* not last_unlock; nothing is dispatched and the resolver is not called.
C21_UnrecognizedOnlyCounted ==
    (nEvents > 0 /\ last.event.null) =>
        /\ last.after = [last.before EXCEPT !.events_received = @ + 1]
        /\ last.resolved = 0
        /\ last.doors = <<>>
        /\ fromLast = {}
        /\ notes[engineOf(nEvents)].last_event # nEvents
        /\ notes[engineOf(nEvents)].last_unlock # nEvents

\* An empty object arrives after an event that was dispatched and unlocked.
C21_Witness ==
    /\ nEvents = 2
    /\ last.event.null
    /\ last.kind = "none"
    /\ notes[1].last_event = 1
    /\ notes[1].last_unlock = 1
    /\ stats.events_received = 2

(***************************************************************************)
(* Delayed dispatch: tables in which several rules match one event, with   *)
(* and without a delay, in either order.                                   *)
(***************************************************************************)
DelayPool ==
    { Rule(Office, Front, <<Elevator>>, 0),
      Rule(Office, FrontUpper, <<Suite>>, 1),
      Rule(Office, Front, <<Suite, Elevator>>, 2),
      Rule(Tenant, Front, <<Suite>>, 1) }

DelayConfigs ==
    { Config(SourceMarker, RulesArray(t, d), RulesArray(t, OtherDefault(d))) :
        t \in SeqsOver(DelayPool, MaxRules), d \in {<<>>, <<Suite>>} }

DelayPayloads ==
    { Direct(DoorUnlock, Front, NoName, a, NoReason, ExtraNull) :
        a \in {"", "u1", "u2", "u3"} }
    \cup { Direct(DoorUnlock, Front, NoName, "u1", NoReason, Marked("source")),
           Direct(DoorbellCompleted, Front, NoName, "u1", 107, ExtraNull),
           Direct(DoorbellCompleted, Front, Viewer, "", 107, ExtraNull),
           Direct(DoorbellCompleted, Front, NoName, "", 107, ExtraNull),
           Direct(DoorbellCompleted, Front, Viewer, "", 106, ExtraNull) }

InitDelay == config \in DelayConfigs /\ InitState
NextDelay ==
    \/ ReceiveEvent(DelayPayloads, MaxRuleEvents)
    \/ TimerFire
    \/ RequestSettles(0)
    \/ FinishUnlocks
SpecDelay == InitDelay /\ [][NextDelay]_vars

\* C22: an actionable event whose group does not resolve, or resolves to a
\* group no rule matches, with an empty default door list of its kind,
\* dispatches nothing: events_skipped_no_action grows by one and
\* events_processed does not grow.
C22_NothingToDo ==
    (/\ (lastIsUnlock \/ lastIsAnswer)
     /\ lastGroup = NoName \/ lastApplicable = {}
     /\ lastDefault = <<>>) =>
        /\ last.doors = <<>>
        /\ fromLast = {}
        /\ lastExec.id # nEvents
        /\ last.after.events_skipped_no_action =
               last.before.events_skipped_no_action + 1
        /\ last.after.events_processed = last.before.events_processed

\* A user of no group unlocks the trigger door, the table holds rules for
\* that door, and the unlock rules have no default.
C22_Witness ==
    /\ (lastIsUnlock \/ lastIsAnswer)
    /\ last.event.type = DoorUnlock
    /\ last.event.actorId = "u3"
    /\ lastGroup = NoName
    /\ Len(config.unlock_rules.rules) > 0
    /\ config.unlock_rules.default_unlock = <<>>
    /\ last.kind = "no_action"

firstOfMatching == CHOOSE i \in lastApplicable : \A j \in lastApplicable : i <= j

\* C29: the delay of a dispatch is that of the first matching rule in table
\* order, none when that rule has no positive delay, and it holds for the
\* whole union of the doors; with a positive delay the handler has returned
\* and counted the event, and no unlock call of the event exists while its
\* timer is pending.
C29_FirstMatchDelays ==
    /\ ((lastIsUnlock \/ lastIsAnswer) /\ lastApplicable # {} /\ last.kind = "dispatch") =>
        /\ last.delay = lastRules[firstOfMatching].delay
        /\ Range(last.doors) = UNION {Range(lastRules[i].unlock) : i \in lastApplicable}
        /\ \A x \in fromLast : x.doors = last.doors
        /\ last.delay > 0 =>
              /\ last.after.events_processed = last.before.events_processed + 1
              /\ \A c \in calls : c.id = nEvents => ~c.counts
        /\ last.delay = 0 =>
              [id |-> nEvents, doors |-> last.doors] \notin timers
    /\ \A t \in timers :
          /\ \A c \in calls : c.id # t.id
          /\ lastExec.id # t.id

\* A rule without delay matches first and a rule with a delay after it;
\* and the reverse order, the timer of both rules' doors still pending.
C29_Witness ==
    /\ (lastIsUnlock \/ lastIsAnswer)
    /\ Cardinality(lastApplicable) = 2
    /\ \E i \in lastApplicable : i # firstOfMatching
          /\ lastRules[i].delay < lastRules[firstOfMatching].delay
          /\ lastRules[i].delay > 0
    /\ Len(last.doors) = 2
    /\ [id |-> nEvents, doors |-> last.doors] \in timers
    /\ calls = {}

C29_WitnessNoDelay ==
    /\ (lastIsUnlock \/ lastIsAnswer)
    /\ Cardinality(lastApplicable) = 2
    /\ lastRules[firstOfMatching].delay = 0
    /\ \E i \in lastApplicable : lastRules[i].delay > 0
    /\ last.delay = 0
    /\ \E c \in calls : c.id = nEvents /\ Len(c.doors) = 2

UnlockStages == <<"self_check", "resolve", "match", "dispatch">>

lastTookUnlockPath ==
    /\ nEvents > 0
    /\ ~last.event.null
    /\ last.event.type = DoorUnlock

\* C27: a door-unlock event goes through the self-trigger check, the group
\* resolution, the rule matching and the dispatch in that order; an event
\* the self-trigger check rejects stops there: the resolver is not invoked,
\* no rule is matched and nothing is dispatched.
C27_StagesInOrder ==
    lastTookUnlockPath =>
        /\ Len(last.steps) \in 1..Len(UnlockStages)
        /\ last.steps = SubSeq(UnlockStages, 1, Len(last.steps))
        /\ last.resolved = Cardinality({k \in 1..Len(last.steps) :
                                           last.steps[k] = "resolve"})
        /\ isSelfTriggered(config.self_trigger, last.event.extra) =>
              /\ last.steps = <<"self_check">>
              /\ last.resolved = 0
              /\ last.doors = <<>>
              /\ fromLast = {}
              /\ last.after = [last.before EXCEPT
                                  !.events_received = @ + 1,
                                  !.events_skipped_self = @ + 1]
        /\ last.kind = "dispatch" <=> last.steps = UnlockStages
        /\ fromLast # {} => last.steps = UnlockStages

\* A marked event of a user whose group has a rule at the event's door.
C27_Witness ==
    /\ lastTookUnlockPath
    /\ last.kind = "self"
    /\ last.event.actorId = "u1"
    /\ applicable(normalizeRules(config.unlock_rules), Office,
                  last.event.locationName) # {}
    /\ last.steps = <<"self_check">>

(***************************************************************************)
(* isSelfTriggered on its own: every configured marker against every       *)
(* value of extra.                                                         *)
(***************************************************************************)
MarkerKeys   == {"", "source", "0"}
MarkerValues == {"", "middleware", "other"}

Markers == { [marker_key |-> k, marker_value |-> v] :
               k \in MarkerKeys, v \in MarkerValues }

MarkerExtras ==
    { ExtraNull, ExtraString }
    \cup { ExtraObject([EmptyMap EXCEPT !["source"] = a, !["0"] = b]) :
             a \in MarkerValues, b \in MarkerValues }
    \cup { ExtraArray(q) : q \in {<<>>, <<"middleware">>, <<"other">>} }

NoMarkerProbe == [extra |-> ExtraNull, done |-> FALSE, result |-> FALSE]

InitMarker ==
    /\ config \in { Config(m, RulesArray(StdUnlockRules, <<>>),
                            RulesArray(StdDoorbellRules, <<>>)) : m \in Markers }
    /\ EngineIdle
    /\ probe \in { [NoMarkerProbe EXCEPT !.extra = x] : x \in MarkerExtras }

CheckMarker ==
    /\ ~probe.done
    /\ probe' = [probe EXCEPT
                    !.done = TRUE,
                    !.result = isSelfTriggered(config.self_trigger, probe.extra)]
    /\ UNCHANGED <<server, clientVars, notes, config, stats, calls, timers, echoes, sent,
                   last, lastExec, nEvents, retired>>

NextMarker == CheckMarker
SpecMarker == InitMarker /\ [][NextMarker]_vars

\* C28: isSelfTriggered returns true iff extra exists, is a mapping, and
\* holds the configured marker value under the configured marker key; with
\* no marker key or no marker value configured it returns false.
C28_MarkerIff ==
    probe.done =>
        (probe.result <=>
            /\ markerConfigured
            /\ probe.extra.kind = "object"
            /\ probe.extra.map[config.self_trigger.marker_key] =
                   config.self_trigger.marker_value)

\* What holds of the code: the same with arrays counted among the mappings.
C28_MarkerIffObjectOrArray ==
    probe.done =>
        (probe.result <=>
            /\ markerConfigured
            /\ probe.extra.kind \in {"object", "array"}
            /\ probe.extra.map[config.self_trigger.marker_key] =
                   config.self_trigger.marker_value)

(***************************************************************************)
(* The HTTP server.  An HMAC is taken to be free of collisions: the digest *)
(* of a body under a secret is the pair of both.  A header that is absent  *)
(* reads as the empty string.                                              *)
(***************************************************************************)
hmac(secret, rawBody) == [secret |-> secret, body |-> rawBody]

\* `sha256=${createHmac('sha256', secret).update(rawBody).digest('hex')}`
Signed(secret, rawBody) == [scheme |-> "sha256", mac |-> hmac(secret, rawBody)]

\* Equal lengths and equal bytes.
timingSafeCompare(a, b) == a = b

\* Mutant: a request that carries no signature header is let through.
webhookAdmitsUnsigned(cfg, signatureHeader, rawBody) ==
    \/ cfg.webhook_secret = ""
    \/ signatureHeader = NoSignature
    \/ timingSafeCompare(signatureHeader, Signed(cfg.webhook_secret, rawBody))

\* The signature test of POST /webhook.
webhookAdmits(cfg, signatureHeader, rawBody) ==
    \/ cfg.webhook_secret = ""
    \/ timingSafeCompare(signatureHeader, Signed(cfg.webhook_secret, rawBody))

\* Mutant: only a wrong key is turned away, a missing one is not.
requireAdminApiKeyIfGiven(cfg, providedApiKey) ==
    \/ cfg.admin_api_key = ""
    \/ providedApiKey = ""
    \/ timingSafeCompare(providedApiKey, cfg.admin_api_key)

\* requireAdminApiKey calls next().
requireAdminApiKey(cfg, providedApiKey) ==
    \/ cfg.admin_api_key = ""
    \/ timingSafeCompare(providedApiKey, cfg.admin_api_key)

AdminRoutes == {"/test/unlock", "/test/event", "/reload", "/api/config", "/api/sync"}

\* The answer to a request, and a request that is turned away: nothing but
\* the answer changes.
answered(path, status, signature, body, key, form) ==
    server' = [server EXCEPT !.route = path, !.status = status,
                             !.signature = signature, !.body = body,
                             !.key = key, !.form = form]

turnedAway(path, status, signature, body, key, form) ==
    /\ answered(path, status, signature, body, key, form)
    /\ UNCHANGED <<engineVars, clientVars>>

\* Mutant: the route answers 200 whatever the handler did.
statusOfAlwaysOk(kind) == 200

statusOf(kind) == IF kind = "threw" THEN 500 ELSE 200

\* POST /webhook
PostWebhook(payloads, signatures, limit) ==
    \E raw \in payloads :
    \E header \in signatures[raw] :
        IF ~webhookAdmits(config, header, raw)
        THEN turnedAway("/webhook", 401, header, raw, "", NoForm)
        ELSE IF raw.json # "object"
        THEN turnedAway("/webhook", 400, header, raw, "", NoForm)
        ELSE /\ nEvents < limit
             /\ Handle(raw, "external")
             /\ answered("/webhook", statusOf(last'.kind), header, raw, "", NoForm)
             /\ UNCHANGED <<echoes, probe>>

\* POST /test/unlock/:door
PostTestUnlock(keys) ==
    \E key \in keys, d \in DoorNames, ok \in BOOLEAN :
        IF ~requireAdminApiKey(config, key)
        THEN turnedAway("/test/unlock", 401, NoSignature, NoPayload, key, NoForm)
        ELSE /\ testUnlock(d, ok, 0)
             /\ answered("/test/unlock", 200, NoSignature, NoPayload, key, NoForm)

\* parseInt of the form's reason_code: a number, or a text of digits.
parseInt(field) == IF field.kind = "absent" THEN NoReason ELSE field.value

TestDevice == <<"T", "e", "s", "t", " ", "D", "e", "v", "i", "c", "e">>

\* Mutant: the simulated event carries no actor.
syntheticNoActor(form) ==
    Direct(IF form.event_type = "" THEN DoorUnlock ELSE form.event_type,
           form.location,
           IF form.device_name = NoName THEN TestDevice ELSE form.device_name,
           "", parseInt(form.reason_code), ExtraNull)

\* The payload POST /test/event builds from the form.
synthetic(form) ==
    Direct(IF form.event_type = "" THEN DoorUnlock ELSE form.event_type,
           form.location,
           IF form.device_name = NoName THEN TestDevice ELSE form.device_name,
           form.user_id, parseInt(form.reason_code), ExtraNull)

\* POST /test/event
PostTestEvent(keys, forms, limit) ==
    \E key \in keys, form \in forms :
        IF ~requireAdminApiKey(config, key)
        THEN turnedAway("/test/event", 401, NoSignature, NoPayload, key, form)
        ELSE IF form.location = NoName
        THEN turnedAway("/test/event", 400, NoSignature, NoPayload, key, form)
        ELSE /\ nEvents < limit
             /\ Handle(synthetic(form), "simulated")
             /\ answered("/test/event", statusOf(last'.kind), NoSignature,
                         NoPayload, key, form)
             /\ UNCHANGED <<echoes, probe>>

\* POST /reload: config.json is read as it is on disk.
PostReload(keys) ==
    \E key \in keys :
        IF ~requireAdminApiKey(config, key)
        THEN turnedAway("/reload", 401, NoSignature, NoPayload, key, NoForm)
        ELSE /\ reloadWith(server.file)
             /\ answered("/reload", 200, NoSignature, NoPayload, key, NoForm)

\* PUT /api/config: the merged configuration is written to disk, then the
\* service reloads from it.
PutConfig(keys, configs) ==
    \E key \in keys, newConfig \in configs :
        IF ~requireAdminApiKey(config, key)
        THEN turnedAway("/api/config", 401, NoSignature, NoPayload, key, NoForm)
        ELSE /\ reloadWith(newConfig)
             /\ server' = [server EXCEPT !.route = "/api/config", !.status = 200,
                                         !.signature = NoSignature,
                                         !.body = NoPayload, !.key = key,
                                         !.form = NoForm, !.file = newConfig]

\* POST /api/sync: the answer follows the run (status 0: none yet).
PostSync(keys) ==
    \E key \in keys, i \in 1..MaxSyncs :
        IF ~requireAdminApiKey(config, key)
        THEN turnedAway("/api/sync", 401, NoSignature, NoPayload, key, NoForm)
        ELSE /\ syncUserGroups(i)
             /\ answered("/api/sync", 0, NoSignature, NoPayload, key, NoForm)

\* Deployments with and without a webhook secret; senders that hold the
\* secret, another one, or none, and signatures made for another body or
\* sent without the sha256= prefix.
WebhookConfigs ==
    { [Config(NoMarker, RulesArray(StdUnlockRules, <<>>),
              RulesArray(StdDoorbellRules, <<>>))
         EXCEPT !.webhook_secret = s] : s \in {"", "s1"} }

WebhookPayloads ==
    { Direct(DoorUnlock, Front, NoName, "u2", NoReason, ExtraNull),
      NullPayload }

WebhookSignatures ==
    [raw \in WebhookPayloads |->
        { NoSignature,
          Signed("s1", raw),
          Signed("s2", raw),
          Signed("s1", NoPayload),
          [Signed("s1", raw) EXCEPT !.scheme = ""] }]

InitWebhook == config \in WebhookConfigs /\ InitState
NextWebhook ==
    \/ PostWebhook(WebhookPayloads, WebhookSignatures, MaxRuleEvents)
    \/ TimerFire
    \/ RequestSettles(0)
    \/ FinishUnlocks
    \/ Reload(WebhookConfigs)
SpecWebhook == InitWebhook /\ [][NextWebhook]_vars

\* Deployments with and without an admin key; callers that hold the key,
\* another one, or none.  The sync runs and the dispatches that admitted
\* requests start are not followed further here.
AdminConfigs ==
    { [Config(NoMarker, RulesArray(StdUnlockRules, <<>>),
              RulesArray(StdDoorbellRules, <<>>))
         EXCEPT !.admin_api_key = k] : k \in {"", "k1"} }

AdminKeys == {"", "k1", "k2"}

AdminForms ==
    { [NoForm EXCEPT !.location = l, !.user_id = "u2"] : l \in {NoName, Front} }

InitAdmin == config \in AdminConfigs /\ InitState
NextAdmin ==
    \/ PostTestUnlock(AdminKeys)
    \/ PostTestEvent(AdminKeys, AdminForms, MaxRuleEvents)
    \/ PostReload(AdminKeys)
    \/ PutConfig(AdminKeys, AdminConfigs)
    \/ PostSync(AdminKeys)
SpecAdmin == InitAdmin /\ [][NextAdmin]_vars

requestOf(srv) ==
    <<srv.route, srv.status, srv.signature, srv.body, srv.key, srv.form>>

C24_AdminKeyRequired ==
    [][ (/\ requestOf(server') # requestOf(server)
         /\ server'.route \in AdminRoutes
         /\ config.admin_api_key # ""
         /\ server'.key # config.admin_api_key)
        => (/\ server'.status = 401
            /\ server'.file = server.file
            /\ UNCHANGED <<engineVars, clientVars>>) ]_vars

\* A PUT /api/config without a key is turned away.
C24_Witness ==
    /\ config.admin_api_key = "k1"
    /\ server.route = "/api/config"
    /\ server.key = ""
    /\ server.status = 401
    /\ server.file = config
    /\ retired = <<>>

(***************************************************************************)
(* broadcastEvent and the in-memory event history.  An entry is known by   *)
(* the number of the broadcast that made it.                               *)
(***************************************************************************)
EVENT_HISTORY_MAX == 200

\* Mutant: the history is never cut.
broadcastEventUncut(eventHistory, entry) == <<entry>> \o eventHistory

\* eventHistory.unshift(entry); if (length > MAX) length = MAX
broadcastEvent(eventHistory, entry) ==
    LET unshifted == <<entry>> \o eventHistory
    IN  IF Len(unshifted) > EVENT_HISTORY_MAX
        THEN SubSeq(unshifted, 1, EVENT_HISTORY_MAX)
        ELSE unshifted

NoHistory == [eventHistory |-> <<>>, broadcasts |-> 0]

InitHistory ==
    /\ config = Config(NoMarker, RulesArray(StdUnlockRules, <<>>),
                       RulesArray(StdDoorbellRules, <<>>))
    /\ EngineIdle
    /\ probe = NoHistory

Broadcast ==
    /\ probe.broadcasts < MaxBroadcasts
    /\ probe' = [eventHistory |-> broadcastEvent(probe.eventHistory,
                                                 probe.broadcasts + 1),
                 broadcasts |-> probe.broadcasts + 1]
    /\ UNCHANGED <<server, clientVars, notes, config, stats, calls, timers, echoes,
                   sent, last, lastExec, nEvents, retired>>

NextHistory == Broadcast
SpecHistory == InitHistory /\ [][NextHistory]_vars

\* C25: after any sequence of broadcasts the event history holds at most
\* 200 entries: the newest first, then the earlier ones in turn, and only
\* the 200 most recent.
C25_HistoryBounded ==
    /\ Len(probe.eventHistory) <= 200
    /\ Len(probe.eventHistory) =
          IF probe.broadcasts < 200 THEN probe.broadcasts ELSE 200
    /\ \A i \in 1..Len(probe.eventHistory) :
          probe.eventHistory[i] = probe.broadcasts - i + 1

\* More broadcasts than the history holds: the first ones are gone.
C25_Witness ==
    /\ probe.broadcasts > 200
    /\ Len(probe.eventHistory) = 200
    /\ probe.eventHistory[1] = probe.broadcasts
    /\ probe.eventHistory[200] = probe.broadcasts - 199

(***************************************************************************)
(* Simulated events: every form POST /test/event can be sent, with no      *)
(* admin key configured.                                                   *)
(***************************************************************************)
SimulateConfigs ==
    { Config(SourceMarker, RulesArray(StdUnlockRules, d),
             RulesArray(StdDoorbellRules, <<>>)) : d \in {<<>>, <<Suite>>} }

ReasonFields ==
    { [kind |-> "absent", value |-> NoReason],
      [kind |-> "number", value |-> 107],
      [kind |-> "number", value |-> 106],
      [kind |-> "text", value |-> 107] }

Form(u, l, t, c, d) ==
    [user_id |-> u, location |-> l, event_type |-> t, reason_code |-> c,
     device_name |-> d]

SimulateForms ==
    { Form(u, Front, DoorUnlock, [kind |-> "absent", value |-> NoReason], NoName) :
        u \in {"", "u1", "u2"} }
    \cup { Form(u, Front, DoorbellCompleted, c, d) :
             u \in {"", "u1"}, c \in ReasonFields, d \in {NoName, Viewer} }
    \cup { Form("u1", Front, "", [kind |-> "absent", value |-> NoReason], NoName),
           Form("u1", NoName, DoorUnlock, [kind |-> "absent", value |-> NoReason],
                NoName) }

InitSimulate == config \in SimulateConfigs /\ InitState
NextSimulate ==
    \/ PostTestEvent({""}, SimulateForms, MaxRuleEvents)
    \/ TimerFire
    \/ RequestSettles(0)
    \/ FinishUnlocks
SpecSimulate == InitSimulate /\ [][NextSimulate]_vars

lastIsSimulated ==
    /\ nEvents > 0
    /\ last.origin = "simulated"
    /\ server.route = "/test/event"
    /\ server.status \in {200, 500}
    /\ server.form.event_type # ""

realPayload ==
    Direct(server.form.event_type, server.form.location,
           server.form.device_name, server.form.user_id,
           server.form.reason_code.value, ExtraNull)

\* C26: a simulated event is handled as the direct-webhook payload with the
\* same actor id, location, event type, reason code and device name would
\* be: the same normalized event, the same counter changes, the same doors
\* dispatched with the same delay.
C26_SimulatedAsReal ==
    lastIsSimulated =>
        LET event == normalizeEvent(realPayload)
            out == route(config, event)
        IN  /\ server.form.device_name # NoName => last.event = event
            /\ last.kind = out.kind
            /\ last.doors = out.doors
            /\ last.delay = out.delay
            /\ last.after = statsAfterRoute(last.before, out)
            /\ lastDispatchIsRecorded

\* A simulated doorbell answer of a known user at the trigger door, with
\* the trigger code, has had its doors dispatched.
C26_Witness ==
    /\ lastIsSimulated
    /\ server.form.event_type = DoorbellCompleted
    /\ server.form.user_id = "u1"
    /\ server.form.reason_code.value = 107
    /\ server.form.device_name = Viewer
    /\ last.kind = "dispatch"
    /\ lastExec.id = nEvents
    /\ stats.unlocks_triggered = 1

finished(c) == \A i \in 1..Len(c.results) : c.results[i] # "pending"

\* C30: a reload does not retract the delayed dispatches of the engine it
\* replaces: their timers stay, they fire with the doors and through the
\* client and marker of the engine that scheduled them, and their outcome
\* is counted in that engine's statistics, never in the new engine's.
C30_DelayedDispatchOutlivesReload ==
    [][ /\ Len(retired') > Len(retired) =>
            /\ timers' = timers
            /\ calls' = calls
        /\ \A t \in timers \ timers' :
            /\ \E c \in calls' \ calls :
                    c.id = t.id /\ c.doors = t.doors /\ ~c.counts
            /\ ownerOf(t.id) # 0 =>
                    /\ sent' = sentAfter(retired[ownerOf(t.id)].config, t.doors, sent)
                    /\ stats' = stats
        /\ \A c \in calls :
            (/\ ownerOf(c.id) # 0
             /\ \A d \in calls' : d.id # c.id) =>
                /\ finished(c)
                /\ stats' = stats
                /\ notes'[Len(retired) + 1] = notes[Len(retired) + 1]
                /\ retired'[ownerOf(c.id)].stats.unlocks_triggered =
                        retired[ownerOf(c.id)].stats.unlocks_triggered
                            + countOf(c.results, "success")
                /\ retired'[ownerOf(c.id)].stats.unlocks_failed =
                        retired[ownerOf(c.id)].stats.unlocks_failed
                            + countOf(c.results, "failed") ]_vars

\* A dispatch the first engine scheduled began after that engine was
\* replaced and has unlocked its door: counted by the first engine, not by
\* the one in place.
C30_Witness ==
    /\ retired # <<>>
    /\ lastExec.id # 0
    /\ lastExec.id <= retired[1].upto
    /\ lastExec.began > 0
    /\ countOf(lastExec.results, "success") > 0
    /\ retired[1].stats.unlocks_triggered = 1
    /\ retired[1].stats.events_processed = 1
    /\ notes[1].last_unlock = lastExec.id
    /\ stats = ZeroStats
    /\ notes[Len(notes)] = NoNotes

(***************************************************************************)
(* Overlapping handleEvent calls.  The server wraps handleEvent: the       *)
(* wrapper copies the counters, awaits the handler, reads the counters     *)
(* again and broadcasts one processed-event entry.  probe holds one frame  *)
(* per call of the wrapper: the payload, the copy of the counters, the     *)
(* per-door results of its dispatch once they have settled, and the entry  *)
(* once the call has returned.                                             *)
(***************************************************************************)
NoEntry == [event |-> 0, action |-> "", success |-> TRUE, unlock |-> 0]

\* broadcastEvent({type, actor, location: afterStats.last_event, action,
\* success, unlock_door: afterStats.last_unlock}).  last_event and
\* last_unlock are held as the number of the call that wrote them.
processedEntry(beforeStats, afterStats, note) ==
    [event |-> note.last_event,
     action |->
        IF afterStats.unlocks_triggered > beforeStats.unlocks_triggered
        THEN "Unlocked"
        ELSE IF afterStats.events_skipped_self > beforeStats.events_skipped_self
        THEN "Skipped (self-triggered)"
        ELSE IF afterStats.events_skipped_location
                    > beforeStats.events_skipped_location
        THEN "Skipped (wrong location)"
        ELSE IF afterStats.events_skipped_no_action
                    > beforeStats.events_skipped_no_action
        THEN "No action needed"
        ELSE "Processed",
     success |-> afterStats.unlocks_failed <= beforeStats.unlocks_failed,
     unlock |-> note.last_unlock]

\* What handleEvent does with a payload under a configuration.
outcomeOf(cfg, raw) ==
    IF normalizeThrows(raw) THEN Outcome("threw", <<>>, 0, 0, 0)
    ELSE route(cfg, normalizeEvent(raw))

\* The handler awaits its dispatch: it has not returned when the step ends.
suspends(out) == out.kind = "dispatch" /\ out.delay = 0

\* rulesEngine.handleEvent = async function(rawPayload) {...}, up to the
\* first suspension of the handler it wraps.
HandlePatched(payloads, limit) ==
    \E raw \in payloads :
        /\ nEvents < limit
        /\ Handle(raw, "external")
        /\ probe' = Append(probe,
                [raw |-> raw, before |-> stats, results |-> <<>>,
                 state |-> IF last'.kind = "threw" THEN "threw"
                           ELSE IF suspends(last') THEN "waiting"
                           ELSE "returned",
                 entry |-> IF last'.kind = "threw" \/ suspends(last')
                           THEN NoEntry
                           ELSE processedEntry(stats, stats',
                                               notes'[engineOf(nEvents')])])
        /\ UNCHANGED <<echoes, server>>

\* executeUnlocks returns; where the handler awaited it, the handler
\* returns to the wrapper, which broadcasts.
FinishPatched ==
    \E c \in calls :
        /\ finishUnlocks(c)
        /\ probe' = [probe EXCEPT
                ![c.id].results = c.results,
                ![c.id].state = IF c.counts THEN "returned" ELSE @,
                ![c.id].entry =
                    IF c.counts
                    THEN processedEntry(probe[c.id].before, stats',
                                        notes'[engineOf(c.id)])
                    ELSE @]

OverlapConfigs ==
    { Config(SourceMarker,
             RulesArray(<<Rule(Office, Front, d, 0),
                          Rule(Tenant, Front, <<Suite>>, 1)>>, <<>>),
             RulesArray(StdDoorbellRules, <<>>)) :
        d \in {<<Elevator, Suite>>, <<Elevator, Ghost>>} }

OverlapPayloads ==
    { Direct(DoorUnlock, Front, NoName, a, NoReason, ExtraNull) :
        a \in {"u1", "u2", "u3"} }
    \cup { Direct(DoorUnlock, Front, NoName, "u1", NoReason, Marked("source")),
           Direct(DoorbellIncoming, Front, NoName, "", NoReason, ExtraNull),
           NoPayload }

InitOverlap == config \in OverlapConfigs /\ EngineIdle /\ probe = <<>>
NextOverlap ==
    \/ HandlePatched(OverlapPayloads, MaxEvents)
    \/ TimerFire
    \/ RequestSettles(0)
    \/ FinishPatched
SpecOverlap == InitOverlap /\ [][NextOverlap]_vars

\* The counters after one call has run alone from st: routed, and, where it
\* dispatched, every per-door result counted.
alone(st, frame) ==
    LET out == outcomeOf(config, frame.raw)
        routed == statsAfterRoute(st, out)
        counted == statsAfterUnlocks(routed, frame.results)
    IN  IF out.kind # "dispatch" THEN routed
        ELSE IF out.delay > 0 THEN counted
        ELSE [counted EXCEPT !.events_processed = @ + 1]

RECURSIVE oneByOne(_, _)
oneByOne(st, frames) ==
    IF frames = <<>> THEN st
    ELSE oneByOne(alone(st, Head(frames)), Tail(frames))

\* C31: executeUnlocks starts the unlock call of every door of its list in
\* one go, before it awaits any (a known door's request is pending, an
\* unknown door has failed, none is left unstarted), and it returns, and
\* its results are counted, only when every one of them has settled.  A
\* handleEvent call can begin and return while a dispatch awaits a door.
C31_AllStartedThenAwaited ==
    [][ /\ \A c \in calls' :
            (\A b \in calls : b.id # c.id) =>
                /\ Len(c.results) = Len(c.doors)
                /\ \A i \in 1..Len(c.doors) :
                        c.results[i] =
                            IF c.doors[i] \in doors THEN "pending" ELSE "failed"
        /\ \A c \in calls :
            (\A d \in calls' : d.id # c.id) =>
                /\ finished(c)
                /\ stats'.unlocks_triggered + stats'.unlocks_failed
                        = stats.unlocks_triggered + stats.unlocks_failed
                            + Len(c.doors)
        /\ (stats'.unlocks_triggered # stats.unlocks_triggered
                \/ stats'.unlocks_failed # stats.unlocks_failed) =>
                \E c \in calls : finished(c) /\ \A d \in calls' : d.id # c.id
      ]_vars

\* A dispatch of two doors awaits the second, the first having settled,
\* and a later handleEvent call has begun and returned meanwhile.
C31_Witness ==
    \E c \in calls :
        /\ c.counts
        /\ Len(c.doors) = 2
        /\ c.results[1] # "pending"
        /\ c.results[2] = "pending"
        /\ nEvents > c.id
        /\ probe[nEvents].state = "returned"
        /\ probe[c.id].state = "waiting"

\* C32: no counter update is lost when handleEvent calls overlap: once no
\* dispatch is in flight, every counter has the value that the same calls,
\* with the same per-door results, leave when they run one by one.
C32_NoLostUpdate ==
    calls = {} => stats = oneByOne(ZeroStats, probe)

\* Two calls have overlapped: the first finished its dispatch after the
\* second had been counted, and both have returned.
C32_Witness ==
    /\ calls = {}
    /\ timers = {}
    /\ nEvents = 2
    /\ lastExec.id = 1
    /\ lastExec.before.events_received = 2
    /\ probe[1].state = "returned"
    /\ probe[2].state = "returned"
    /\ stats.events_processed >= 1

\* What a call did before it returned, by its own payload and the results
\* of the dispatch it awaited (a delayed dispatch settles after the return).
awaited(frame) ==
    IF suspends(outcomeOf(config, frame.raw)) THEN frame.results ELSE <<>>

ownAction(frame) ==
    LET out == outcomeOf(config, frame.raw)
    IN  IF countOf(awaited(frame), "success") > 0 THEN "Unlocked"
        ELSE IF out.kind = "self" THEN "Skipped (self-triggered)"
        ELSE IF out.kind = "no_action" THEN "No action needed"
        ELSE "Processed"

ownSuccess(frame) == countOf(awaited(frame), "failed") = 0

\* C37: the entry the wrapper broadcasts for a call whose payload was
\* recognised describes that call: its event, what it did and whether
\* every unlock it attempted succeeded.
C37_EntryDescribesOwnCall ==
    \A i \in 1..Len(probe) :
        (/\ probe[i].state = "returned"
         /\ ~normalizeEvent(probe[i].raw).null) =>
            /\ probe[i].entry.event = i
            /\ probe[i].entry.action = ownAction(probe[i])
            /\ probe[i].entry.success = ownSuccess(probe[i])

\* C40: the processed and the two skipped counters never exceed the
\* received counter together; each counts the calls of one kind, a call
\* being of at most one kind: skipped as self-triggered, skipped for no
\* action, or dispatched with doors to unlock.  A dispatched call is
\* counted as processed once it has returned, at once when the dispatch is
\* delayed and after the doors have settled otherwise, whatever the
\* results.
kindOf(frame) == outcomeOf(config, frame.raw).kind

C40_CountersPartition ==
    LET ofKind(kind) == {i \in 1..Len(probe) : kindOf(probe[i]) = kind}
    IN  /\ stats.events_processed + stats.events_skipped_self
                + stats.events_skipped_no_action <= stats.events_received
        /\ stats.events_received = Len(probe)
        /\ stats.events_skipped_self = Cardinality(ofKind("self"))
        /\ stats.events_skipped_no_action = Cardinality(ofKind("no_action"))
        /\ stats.events_processed =
                Cardinality({i \in ofKind("dispatch") : probe[i].state = "returned"})
        /\ \A i \in ofKind("dispatch") :
                outcomeOf(config, probe[i].raw).doors # <<>>

\* Two dispatches are counted as processed: a delayed one whose timer has
\* not fired, and an immediate one of which a door failed.
C40_Witness ==
    /\ nEvents = 2
    /\ stats.events_processed = 2
    /\ timers # {}
    /\ calls = {}
    /\ countOf(lastExec.results, "failed") > 0
    /\ stats.events_received = 2

(***************************************************************************)
(* Socket-push log entries on their own: with and without _source, with    *)
(* every inner type, with several targets, with and without a door among   *)
(* them.                                                                   *)
(***************************************************************************)
UnwrapConfigs ==
    { Config(SourceMarker,
             RulesArray(<<Rule(NoName, Front, <<Elevator>>, 0),
                          Rule(NoName, Suite, <<Suite>>, 1)>>, d),
             RulesArray(<<Rule(NoName, Front, <<Suite>>, 0)>>, <<>>)) :
        d \in {<<>>, <<Suite, Elevator>>} }

UnwrapTargets ==
    { <<>>,
      <<DoorTarget(Front)>>,
      <<[type |-> "user", display_name |-> Suite], DoorTarget(Front)>>,
      <<DoorTarget(Front), DoorTarget(Suite)>>,
      <<DoorTarget(Suite), [type |-> "user", display_name |-> Front],
        DoorTarget(Front)>> }

Named(raw, name) == [raw EXCEPT !.data.source.actor_name = name]

UnwrapPayloads ==
    { Named(Log(t, targets, "u1", NoReason, ExtraNull), n) :
        t \in {DoorUnlock, DoorbellCompleted, DoorbellIncoming, LogsAdd, ""},
        targets \in UnwrapTargets, n \in {NoName, Office} }
    \cup { Direct(LogsAdd, Front, NoName, "u1", NoReason, ExtraNull) }

InitUnwrap == config \in UnwrapConfigs /\ InitState
NextUnwrap ==
    \/ ReceiveEvent(UnwrapPayloads, MaxRuleEvents)
    \/ TimerFire
    \/ RequestSettles(0)
    \/ FinishUnlocks
SpecUnwrap == InitUnwrap /\ [][NextUnwrap]_vars

lastIsLog == nEvents > 0 /\ ~last.event.null /\ last.event.type = LogsAdd

\* The display name of the first entry of the target list whose type is door.
firstDoorName(targets) ==
    LET at == {i \in 1..Len(targets) : targets[i].type = "door"}
    IN  IF at = {} THEN NoName ELSE targets[Min(at)].display_name

sameOutcome(out) ==
    /\ last.kind = out.kind
    /\ last.doors = out.doors
    /\ last.delay = out.delay
    /\ last.after = statsAfterRoute(last.before, out)

\* C33: the event unwrapped from a log entry has the type of
\* _source.event.type, the location of the first door target's display name
\* and the actor name of _source.actor.display_name, and goes to the
\* door-unlock handler or to the doorbell-completed handler by that type; a
\* log entry without _source, without an inner type or with any other inner
\* type is dispatched nowhere and is counted as received only.
C33_UnwrapAndHandOn ==
    lastIsLog =>
        LET source == last.event.source
            normalized == unwrapLog(last.event)
        IN  /\ (source.present /\ source.event_type # "") =>
                    /\ normalized.type = source.event_type
                    /\ normalized.locationName = firstDoorName(source.targets)
                    /\ normalized.actorName = source.actor_name
            /\ IF source.present /\ source.event_type = DoorUnlock
               THEN sameOutcome(handleDoorUnlock(config, normalized))
               ELSE IF source.present /\ source.event_type = DoorbellCompleted
               THEN sameOutcome(handleDoorbellCompleted(config, normalized))
               ELSE /\ last.kind = "none"
                    /\ last.after = [last.before EXCEPT !.events_received = @ + 1]
                    /\ \A c \in calls : c.id # nEvents
                    /\ \A t \in timers : t.id # nEvents

\* A log entry with a user target before two door targets and an actor
\* name has been handed to the door-unlock handler with the first door as
\* its location, and the rule of that door has begun a dispatch.
C33_Witness ==
    /\ lastIsLog
    /\ last.event.source.event_type = DoorUnlock
    /\ Len(last.event.source.targets) = 3
    /\ last.event.source.targets[1].type = "door"
    /\ last.event.source.targets[3].type = "door"
    /\ last.event.source.actor_name = Office
    /\ last.kind = "dispatch"
    /\ last.doors = <<Suite>>
    /\ last.delay = 1

\* A log entry whose inner type is neither an unlock nor a doorbell answer
\* has been counted as received and nothing else.
C33_WitnessOtherType ==
    /\ lastIsLog
    /\ last.event.source.present
    /\ last.event.source.event_type = DoorbellIncoming
    /\ last.kind = "none"
    /\ stats = [ZeroStats EXCEPT !.events_received = 1]

\* C35 (as claimed): under every configured marker the extra of a request
\* unlockDoor has sent is taken as self-triggered when it comes back
\* unchanged as the extra of an event, the markers whose key is one that
\* unlockDoor writes itself (reason, timestamp) included.
C35_SentExtraIsRecognised ==
    (sent # NoBody /\ markerConfigured) =>
        isSelfTriggered(config.self_trigger, sent.extra)

(***************************************************************************)
(* Handlers that raise, under each transport: a log entry with a null      *)
(* target and events whose location is a number, over the webhook route,   *)
(* the simulated-event route and the socket push, among events that are    *)
(* dispatched.                                                             *)
(***************************************************************************)
CatchConfigs ==
    { Config(NoMarker, RulesArray(StdUnlockRules, <<>>),
             RulesArray(StdDoorbellRules, <<>>)) }

CatchPayloads ==
    { Direct(DoorUnlock, Front, NoName, "u1", NoReason, ExtraNull),
      Direct(DoorUnlock, Front, NoName, "u2", NoReason, ExtraNull),
      Direct(DoorUnlock, NumberName, NoName, "u1", NoReason, ExtraNull),
      Log(DoorUnlock, <<NullTarget, DoorTarget(Front)>>, "u1", NoReason,
          ExtraNull) }

CatchSignatures == [raw \in CatchPayloads |-> {NoSignature}]

CatchForms ==
    { Form("u1", l, DoorUnlock, [kind |-> "absent", value |-> NoReason], NoName) :
        l \in {Front, NumberName} }
    \cup { Form("u1", NumberName, DoorbellCompleted,
                [kind |-> "number", value |-> DefaultTriggerCode], NoName) }

InitCatch == config \in CatchConfigs /\ InitState
NextCatch ==
    \/ PostWebhook(CatchPayloads, CatchSignatures, MaxEvents)
    \/ PostTestEvent({""}, CatchForms, MaxEvents)
    \/ ReceiveEvent(CatchPayloads, MaxEvents)
    \/ TimerFire
    \/ RequestSettles(0)
    \/ FinishUnlocks
SpecCatch == InitCatch /\ [][NextCatch]_vars

\* C34: a handleEvent call that raises fails alone, whichever transport
\* made it: the route that made the call answers 500, the socket-push
\* callback answers nothing; the dispatches in flight, the pending timers,
\* the engine and the client stay as they were, and only the counters that
\* the call raised before it failed have moved.
C34_FailureStaysWithItsEvent ==
    [][ (nEvents' = nEvents + 1 /\ last'.kind = "threw") =>
            /\ calls' = calls
            /\ timers' = timers
            /\ sent' = sent
            /\ config' = config
            /\ retired' = retired
            /\ client' = client
            /\ \A k \in Counters \ {"events_received", "doorbell_events"} :
                    stats'[k] = stats[k]
            /\ stats'.events_received = stats.events_received + 1
            /\ IF last'.origin = "simulated"
               THEN server'.route = "/test/event" /\ server'.status = 500
               ELSE IF requestOf(server') # requestOf(server)
               THEN server'.route = "/webhook" /\ server'.status = 500
               ELSE server' = server
      ]_vars

\* A webhook call has raised and has been answered 500 while a dispatch
\* begun before it was in flight; that dispatch has since finished and has
\* been counted.
C34_Witness ==
    /\ server.route = "/webhook"
    /\ server.status = 500
    /\ nEvents = 2
    /\ last.kind = "threw"
    /\ lastExec.id = 1
    /\ lastExec.before.events_received = 2
    /\ stats.events_processed = 1

\* The simulated-event route has answered 500 for a call that raised, and
\* the next event, pushed over the socket, has been dispatched.
C34_WitnessSimulated ==
    /\ server.route = "/test/event"
    /\ server.status = 500
    /\ nEvents = 2
    /\ last.origin = "external"
    /\ last.kind = "dispatch"
    /\ last.before.events_received = 1
    /\ last.before.events_processed = 0

\* A socket-push call has raised after a dispatch; no route has answered.
C34_WitnessPush ==
    /\ server.route = ""
    /\ nEvents = 2
    /\ last.kind = "threw"
    /\ last.origin = "external"
    /\ \E c \in calls : c.id = 1

(***************************************************************************)
(* The reload step by step, and the sockets and timers of the clients.     *)
(* POST /reload runs loadConfig, unifiClient.shutdown(), the three         *)
(* constructors and the re-patching without suspending, then awaits        *)
(* initialize() of the new client: discoverDoors, then syncUserGroups,     *)
(* then startPeriodicSync.  Events and socket callbacks run in between.    *)
(***************************************************************************)
inPlace == Len(service.clients)

\* UniFiClient.shutdown: clearInterval, clearTimeout, this.ws.close() and
\* this.ws = null.  close() of an open socket is followed by its close
\* event; the handlers registered by connectWebSocket stay registered.
shutdown(link) ==
    [link EXCEPT !.down = TRUE, !.periodic = FALSE, !.timer = FALSE,
                 !.ws = "none", !.closing = @ \/ link.ws = "open"]

\* start() in websocket mode: unifiClient.connectWebSocket(...), once.
ConnectWebSocket ==
    /\ service = ServiceUp
    /\ service' = [service EXCEPT !.clients[1].ws = "open"]
    /\ UNCHANGED <<client, syncs, lastSync, engineVars, server>>

\* The connection of a socket drops; this.ws keeps the closed socket.
SocketDrops ==
    \E k \in 1..inPlace :
        /\ service.clients[k].ws = "open"
        /\ service' = [service EXCEPT !.clients[k].ws = "closed",
                                      !.clients[k].closing = TRUE]
        /\ UNCHANGED <<client, syncs, lastSync, engineVars, server>>

\* ws.on('close') -> scheduleReconnect: a timer is set unless one is set.
scheduleReconnect(link) == [link EXCEPT !.closing = FALSE, !.timer = TRUE]

CloseDelivered ==
    \E k \in 1..inPlace :
        /\ service.clients[k].closing
        /\ service' = [service EXCEPT !.clients[k] = scheduleReconnect(@)]
        /\ UNCHANGED <<client, syncs, lastSync, engineVars, server>>

\* The reconnect timer fires: wsReconnectTimer = null; connectWebSocket.
ReconnectFires ==
    \E k \in 1..inPlace :
        /\ service.clients[k].timer
        /\ service' = [service EXCEPT !.clients[k].timer = FALSE,
                                      !.clients[k].ws = "open"]
        /\ UNCHANGED <<client, syncs, lastSync, engineVars, server>>

\* POST /reload up to its await.  fault: what config.json is like on disk:
\* "load" (unreadable, or no JSON: loadConfig throws), "client" (JSON
\* without a unifi section: new UniFiClient throws at config.unifi.host),
\* "none" (the constructors succeed and initialize() sends GET /doors).
ReloadBegins(configs) ==
    \E newConfig \in configs, fault \in {"none", "load", "client"} :
        /\ CASE fault = "load" ->
                  /\ answered("/reload", 500, NoSignature, NoPayload, "", NoForm)
                  /\ UNCHANGED <<engineVars, clientVars>>
             [] fault = "client" ->
                  /\ service' = [service EXCEPT !.clients[inPlace] = shutdown(@)]
                  /\ answered("/reload", 500, NoSignature, NoPayload, "", NoForm)
                  /\ UNCHANGED <<engineVars, client, syncs, lastSync>>
             [] OTHER ->
                  /\ replaceEngine(newConfig)
                  /\ service' = [service EXCEPT
                        !.clients = Append([@ EXCEPT ![inPlace] = shutdown(@)],
                                           [NewClient EXCEPT !.init = "doors"]),
                        !.doors = {}]
                  /\ client' = EmptyCaches
                  /\ server' = [server EXCEPT !.route = "/reload", !.status = 0,
                                              !.signature = NoSignature,
                                              !.body = NoPayload, !.key = "",
                                              !.form = NoForm,
                                              !.file = newConfig]
                  /\ UNCHANGED <<syncs, lastSync>>

\* GET /doors of an initialize() call is answered.  On failure
\* initialize() logs and returns false, and the reload route that awaited
\* it answers as after a success.  A client that has been replaced
\* meanwhile fills its own directory, not the one of the client in place.
DoorsDiscovered ==
    \E k \in 1..inPlace, ok \in BOOLEAN :
        /\ service.clients[k].init = "doors"
        /\ service' = [service EXCEPT
                !.clients[k].init = IF ok THEN "groups" ELSE "no",
                !.doors = IF ok /\ k = inPlace THEN doors ELSE @]
        /\ server' = [server EXCEPT
                !.status = IF ok \/ k # inPlace THEN @ ELSE 200]
        /\ UNCHANGED <<client, syncs, lastSync, engineVars>>

\* syncUserGroups of initialize() ends, having published its maps or having
\* caught its error; startPeriodicSync follows in either case, and the
\* reload route answers.
GroupsSynced ==
    \E k \in 1..inPlace, ok \in BOOLEAN :
        /\ service.clients[k].init = "groups"
        /\ service' = [service EXCEPT !.clients[k].init = "no",
                                      !.clients[k].periodic = TRUE,
                                      !.ready = TRUE]
        /\ client' = IF ok /\ k = inPlace THEN PublishedCaches ELSE client
        /\ server' = [server EXCEPT !.status = IF k = inPlace THEN 200 ELSE @]
        /\ UNCHANGED <<syncs, lastSync, engineVars>>

RestartConfigs ==
    { Config(NoMarker, RulesArray(StdUnlockRules, d),
             RulesArray(StdDoorbellRules, <<>>)) : d \in {<<>>, <<Suite>>} }

RestartPayloads ==
    { Direct(DoorUnlock, Front, NoName, "u1", NoReason, ExtraNull) }

InitRestart == config \in RestartConfigs /\ InitState
NextRestart ==
    \/ ConnectWebSocket
    \/ SocketDrops
    \/ CloseDelivered
    \/ ReconnectFires
    \/ ReloadBegins(RestartConfigs)
    \/ DoorsDiscovered
    \/ GroupsSynced
    \/ ReceiveEvent(RestartPayloads, MaxRuleEvents)
    \/ RequestSettles(0)
    \/ FinishUnlocks
SpecRestart == InitRestart /\ [][NextRestart]_vars

\* C36 (as claimed): a client on which shutdown() has been called has no
\* pending reconnect timer, no open or connecting socket and no periodic
\* sync timer, in every later state.
C36_ShutDownStaysQuiet ==
    \A k \in 1..inPlace :
        service.clients[k].down =>
            /\ ~service.clients[k].timer
            /\ service.clients[k].ws # "open"
            /\ ~service.clients[k].periodic

\* C38 (as claimed): a reload that fails leaves the client, the engine and
\* their timers as they were.
C38_FailedReloadChangesNothing ==
    [][ (/\ requestOf(server') # requestOf(server)
         /\ server'.route = "/reload"
         /\ server'.status = 500) =>
            /\ service' = service
            /\ client' = client
            /\ config' = config
            /\ stats' = stats
            /\ retired' = retired ]_vars

\* C39 (as claimed): once an initialization has succeeded, every event is
\* handled by an engine whose client holds a door directory and a
\* membership cache that have been filled.
C39_HandledWithFilledCaches ==
    [][ (nEvents' = nEvents + 1 /\ service.ready) =>
            /\ service.doors # {}
            /\ client # EmptyCaches ]_vars

====
